---- MODULE Spec2Model ----
(***************************************************************************)
(* A model of bare-git-client: the tree mutation engine (tree-walker.ts),  *)
(* the compare-and-swap reference update (concurrency.ts) and the          *)
(* committing operations built on them.                                    *)
(*                                                                         *)
(* Objects are content addressed, so an OID is modelled by the content it  *)
(* names: two objects have the same OID exactly when they have the same    *)
(* content.  git.writeTree stores the entries sorted by name, so a tree    *)
(* OID is the sequence of its entries in name order.                   *)
(***************************************************************************)
EXTENDS Integers, Sequences, FiniteSets, TLC

VARIABLES
  tw,         \* the tree engine applied to one input: [op, root, path, blob, out]
  mt,         \* mergeTrees applied to one input: [op, base, ours, theirs, resolutions, out]
  ls,         \* listFiles applied to one directory: [op, tree, out]
  refs,       \* the reference namespace: branch -> commit OID, or Null
  pc,         \* where each client's operation stands
  op,         \* the input of each client's operation
  loc,        \* the local variables of each client's operation
  returned,   \* what each client's last operation returned or threw
  calls,      \* the Object Store calls each client's operation has made
  nOps,       \* operations started
  faults,     \* Object Store calls that failed
  succeeded   \* the (branch, commit) of every operation that returned success

vars == <<tw, mt, ls, refs, pc, op, loc, returned, calls, nOps, faults, succeeded>>

opVars == <<refs, pc, op, loc, returned, calls, nOps, faults, succeeded>>

(***************************************************************************)
(* Bounds                                                                  *)
(***************************************************************************)
MaxDepth == 2            \* depth of the input trees and length of the paths

MaxOps == 2              \* operations started in one behaviour

MaxFaults == 1           \* Object Store calls that fail in one behaviour

MaxEdits == 2            \* changes of each side of a merge since the merge base

Procs == {"p1", "p2"}    \* the clients, each with its own user name

Branches == {"main", "dev"}

NameOrder == <<"a", "b">>     \* the entry names (path segments), in sort order

Names == {NameOrder[i] : i \in DOMAIN NameOrder}

(***************************************************************************)
(* Object identifiers                                                      *)
(***************************************************************************)
Null == [k |-> "null"]

Blob(c) == [k |-> "blob", c |-> c]

\* git.writeTree stores the entries ordered by name (stable for equal names).
RECURSIVE sortByPath(_, _)
sortByPath(entries, order) ==
  IF order = <<>> THEN <<>>
  ELSE SelectSeq(entries, LAMBDA e : e.path = Head(order))
       \o sortByPath(entries, Tail(order))

\* Every name an entry can have, in sort order: '..' is no segment of a valid
\* path, but nothing keeps it out of a tree.
EntryOrder == <<"..">> \o NameOrder

writeTree(entries) == [k |-> "tree", e |-> sortByPath(entries, EntryOrder)]

EmptyTree == writeTree(<<>>)

Err(code) == [k |-> "error", code |-> code, resource |-> ""]

\* the wrong factory method
NotFoundAsInvalidPath(resource) == [k |-> "error", code |-> "INVALID_PATH", resource |-> resource]

NotFound(resource) == [k |-> "error", code |-> "NOT_FOUND", resource |-> resource]

IsErr(x) == x.k = "error"

IsTree(oid) == oid.k = "tree"

readTree(oid) == oid.e

BlobX == Blob("x")

BlobY == Blob("y")

Blobs == {BlobX, BlobY}

fileEntry(name, oid) == [mode |-> "100644", path |-> name, oid |-> oid, type |-> "blob"]

dirEntry(name, oid) == [mode |-> "040000", path |-> name, oid |-> oid, type |-> "tree"]

execEntry(name, oid) == [mode |-> "100755", path |-> name, oid |-> oid, type |-> "blob"]

\* entries.some(e => e.path === name)
HasEntry(entries, name) == \E i \in DOMAIN entries : entries[i].path = name

\* entries.find(e => e.path === name): the first match
EntryOf(entries, name) ==
  entries[CHOOSE i \in DOMAIN entries :
            /\ entries[i].path = name
            /\ \A j \in 1..(i - 1) : entries[j].path # name]

\* entries.filter(e => e.path !== name)
withoutPartKeepsAll(entries, name) == entries

withoutPart(entries, name) == SelectSeq(entries, LAMBDA e : e.path # name)

(***************************************************************************)
(* tree-walker.ts                                                          *)
(***************************************************************************)
RECURSIVE resolveFrom(_, _, _, _)
resolveFrom(currentSha, mode, type, parts) ==
  IF parts = <<>> THEN [k |-> "entry", sha |-> currentSha, mode |-> mode, type |-> type]
  ELSE IF type # "tree" THEN Err("INVALID_PATH")
  ELSE IF ~IsTree(currentSha) THEN Err("ObjectTypeError")
  ELSE LET entries == readTree(currentSha)
           part == Head(parts)
       IN IF ~HasEntry(entries, part) THEN NotFound("Path")
          ELSE LET entry == EntryOf(entries, part)
               IN resolveFrom(entry.oid, entry.mode, entry.type, Tail(parts))

resolvePath(rootTreeSha, parts) == resolveFrom(rootTreeSha, "040000", "tree", parts)

existingSubTreeShaIgnored(parentTreeSha, currentPart) == Null

existingSubTreeSha(parentTreeSha, currentPart) ==
  IF parentTreeSha # Null /\ HasEntry(readTree(parentTreeSha), currentPart)
  THEN EntryOf(readTree(parentTreeSha), currentPart).oid
  ELSE Null

RECURSIVE upsertFileInTree(_, _, _)
upsertFileInTree(parentTreeSha, pathParts, fileBlobSha) ==
  LET currentPart == Head(pathParts)
      remainingParts == Tail(pathParts)
  IN IF parentTreeSha # Null /\ ~IsTree(parentTreeSha) THEN Err("ObjectTypeError")
     ELSE LET existing == IF parentTreeSha # Null THEN readTree(parentTreeSha) ELSE <<>>
              entries == withoutPart(existing, currentPart)
          IN IF remainingParts = <<>>
             THEN writeTree(Append(entries, fileEntry(currentPart, fileBlobSha)))
             ELSE LET newSubTreeSha ==
                        upsertFileInTree(existingSubTreeSha(parentTreeSha, currentPart),
                                         remainingParts, fileBlobSha)
                  IN IF IsErr(newSubTreeSha) THEN newSubTreeSha
                     ELSE writeTree(Append(entries, dirEntry(currentPart, newSubTreeSha)))

\* If the tree is now empty, return null to signal the parent to prune;
\* otherwise write the modified tree.
writeNeverPrunes(entries) == writeTree(entries)

writeOrPrune(entries) == IF Len(entries) = 0 THEN Null ELSE writeTree(entries)

RECURSIVE removeFileFromTree(_, _)
removeFileFromTree(parentTreeSha, pathParts) ==
  IF parentTreeSha = Null THEN NotFound("File")
  ELSE IF ~IsTree(parentTreeSha) THEN Err("ObjectTypeError")
  ELSE
    LET currentPart == Head(pathParts)
        remainingParts == Tail(pathParts)
        existing == readTree(parentTreeSha)
        entries == withoutPart(existing, currentPart)
    IN IF remainingParts = <<>>
       THEN IF ~HasEntry(existing, currentPart) THEN NotFound("File")
            ELSE writeOrPrune(entries)
       ELSE IF ~HasEntry(existing, currentPart)
               \/ EntryOf(existing, currentPart).type # "tree"
            THEN NotFound("Path")
            ELSE LET newSubTreeSha ==
                       removeFileFromTree(EntryOf(existing, currentPart).oid,
                                          remainingParts)
                 IN IF IsErr(newSubTreeSha) THEN newSubTreeSha
                    ELSE LET rebuilt ==
                               IF newSubTreeSha # Null
                               THEN Append(entries, dirEntry(currentPart, newSubTreeSha))
                               ELSE entries
                         IN writeOrPrune(rebuilt)

\* a removal that insists on a directory at the end of the path
removeDirectoryOnly(parentTreeSha, pathParts) ==
  IF /\ parentTreeSha # Null
     /\ IsTree(parentTreeSha)
     /\ ~IsErr(resolvePath(parentTreeSha, pathParts))
     /\ resolvePath(parentTreeSha, pathParts).type # "tree"
  THEN NotFound("Directory")
  ELSE removeFileFromTree(parentTreeSha, pathParts)

RECURSIVE removeDirectoryFromTree(_, _)
removeDirectoryFromTree(parentTreeSha, pathParts) ==
  IF parentTreeSha = Null THEN NotFound("Directory")
  ELSE IF ~IsTree(parentTreeSha) THEN Err("ObjectTypeError")
  ELSE
    LET currentPart == Head(pathParts)
        remainingParts == Tail(pathParts)
        existing == readTree(parentTreeSha)
    IN IF remainingParts = <<>>
       THEN IF ~HasEntry(existing, currentPart) THEN NotFound("Directory")
            ELSE LET entries == withoutPart(existing, currentPart)
                 IN writeOrPrune(entries)
       ELSE IF ~HasEntry(existing, currentPart)
               \/ EntryOf(existing, currentPart).type # "tree"
            THEN NotFound("Path")
            ELSE LET newSubTreeSha ==
                       removeDirectoryFromTree(EntryOf(existing, currentPart).oid,
                                               remainingParts)
                 IN IF IsErr(newSubTreeSha) THEN newSubTreeSha
                    ELSE LET entries == withoutPart(existing, currentPart)
                             rebuilt ==
                               IF newSubTreeSha # Null
                               THEN Append(entries, dirEntry(currentPart, newSubTreeSha))
                               ELSE entries
                         IN writeOrPrune(rebuilt)

\* The trees a removeFileFromTree (removeDirectoryFromTree) call writes with
\* git.writeTree, the calls of its recursion included: a level writes its tree
\* after its recursive call has returned, and only if the tree has entries.
RECURSIVE treesWrittenByRemove(_, _)
treesWrittenByRemove(parentTreeSha, pathParts) ==
  IF parentTreeSha = Null \/ ~IsTree(parentTreeSha) THEN {}
  ELSE
    LET currentPart == Head(pathParts)
        remainingParts == Tail(pathParts)
        existing == readTree(parentTreeSha)
        entries == withoutPart(existing, currentPart)
    IN IF remainingParts = <<>>
       THEN IF ~HasEntry(existing, currentPart) \/ Len(entries) = 0 THEN {}
            ELSE {writeTree(entries)}
       ELSE IF ~HasEntry(existing, currentPart)
               \/ EntryOf(existing, currentPart).type # "tree"
            THEN {}
            ELSE LET below == treesWrittenByRemove(EntryOf(existing, currentPart).oid,
                                                   remainingParts)
                     newSubTreeSha == removeFileFromTree(EntryOf(existing, currentPart).oid,
                                                         remainingParts)
                     rebuilt == IF newSubTreeSha # Null
                                THEN Append(entries, dirEntry(currentPart, newSubTreeSha))
                                ELSE entries
                 IN IF IsErr(newSubTreeSha) \/ Len(rebuilt) = 0 THEN below
                    ELSE below \cup {writeTree(rebuilt)}

\* a count of the regular files of the tree itself
countRegularFiles(treeSha) ==
  Cardinality({i \in DOMAIN readTree(treeSha) : readTree(treeSha)[i].mode = "100644"})

RECURSIVE countFilesInTree(_)
countFilesInTree(treeSha) ==
  LET entries == readTree(treeSha)
      RECURSIVE sum(_)
      sum(i) == IF i > Len(entries) THEN 0
                ELSE (IF entries[i].type = "blob" THEN 1
                      ELSE countFilesInTree(entries[i].oid))
                     + sum(i + 1)
  IN sum(1)

(***************************************************************************)
(* Inputs of the tree engine                                               *)
(***************************************************************************)
RECURSIVE PathsUpTo(_)
PathsUpTo(n) ==
  IF n = 0 THEN {}
  ELSE LET shorter == PathsUpTo(n - 1)
       IN {<<s>> : s \in Names} \cup shorter
          \cup {Append(p, s) : p \in shorter, s \in Names}

Paths == PathsUpTo(MaxDepth)

\* What a name may hold in an input tree: nothing, a regular file, an
\* executable file, or (below) a non-empty directory.
entryFor(name, opt) ==
  IF opt = BlobX THEN fileEntry(name, BlobX)
  ELSE IF opt = BlobY THEN execEntry(name, BlobY)
  ELSE dirEntry(name, opt)

RECURSIVE TreesOfDepth(_)
TreesOfDepth(d) ==
  LET subs == IF d <= 1 THEN {} ELSE {t \in TreesOfDepth(d - 1) : t # EmptyTree}
      opts == {Null, BlobX, BlobY} \cup subs
      entriesOf(f) ==
        LET all == [i \in DOMAIN NameOrder |-> [n |-> NameOrder[i], o |-> f[NameOrder[i]]]]
            kept == SelectSeq(all, LAMBDA x : x.o # Null)
        IN [i \in DOMAIN kept |-> entryFor(kept[i].n, kept[i].o)]
  IN {writeTree(entriesOf(f)) : f \in [Names -> opts]}

Roots == {Null} \cup TreesOfDepth(MaxDepth)

(***************************************************************************)
(* Commits and references                                                  *)
(***************************************************************************)
\* git.writeCommit: the author (and committer) stands for the client's user
\* name and e-mail, the message for the operation's default commit message.
writeCommit(tree, parent, author, message) ==
  [k |-> "commit", tree |-> tree, parent |-> parent, author |-> author,
   message |-> message]

\* git.readCommit(oid).commit.tree
commitTree(oid) == oid.tree

RECURSIVE Ancestors(_)
Ancestors(c) == {c} \cup UNION {Ancestors(c.parent[i]) : i \in DOMAIN c.parent}

\* a merge base search that falls back on the first commit
findMergeBaseOrTip(a, b) ==
  LET common == Ancestors(a) \cap Ancestors(b)
  IN IF common = {} THEN {a}
     ELSE {c \in common : \A d \in common \ {c} : c \notin Ancestors(d)}

\* git.findMergeBase: the common ancestors that are no ancestor of another one
findMergeBase(a, b) ==
  LET common == Ancestors(a) \cap Ancestors(b)
  IN {c \in common : \A d \in common \ {c} : c \notin Ancestors(d)}

ErrorCodes ==
  {"NOT_FOUND", "CONCURRENCY_ERROR", "MERGE_CONFLICT", "GIT_CLI_NOT_FOUND",
   "ALREADY_EXISTS", "INVALID_PATH", "BINARY_FILE", "INVALID_REFERENCE",
   "INVALID_INPUT", "OPERATION_FAILED"}

\* catch (error) that rethrows whatever it caught
wrapErrorRethrows(e) == e.code

\* catch (error): a BareGitClientError passes, anything else is wrapped
wrapError(e) == IF e.code \in ErrorCodes THEN e.code ELSE "OPERATION_FAILED"

(***************************************************************************)
(* Paths as the caller writes them: a sequence of tokens, each a separator *)
(* "/" or a segment.                                                       *)
(***************************************************************************)
\* filePath.replace(/^\/+|\/+$/g, '').split('/').filter(Boolean)
pathParts(filePath) == SelectSeq(filePath, LAMBDA t : t # "/")

\* new Set(filePaths).size !== filePaths.length
hasDuplicates(filePaths) ==
  \E i, j \in DOMAIN filePaths : i # j /\ filePaths[i] = filePaths[j]

\* removeDirectory: normalise the path and reject the root and '.', '..'
validDirectoryPath(directoryPath) ==
  LET segments == pathParts(directoryPath)
  IN /\ directoryPath # <<>>
     /\ directoryPath \notin {<<".">>, <<"..">>}
     /\ segments # <<>>
     /\ \A i \in DOMAIN segments : segments[i] \notin {".", ".."}

(***************************************************************************)
(* merge-branches.ts: mergeTrees                                           *)
(***************************************************************************)
NoEntry == [mode |-> "", path |-> "", oid |-> Null, type |-> "none"]

\* a lookup that answers with the first entry for a name the map does not hold
getEntryOrFirst(entries, p) ==
  IF HasEntry(entries, p) THEN EntryOf(entries, p)
  ELSE IF entries # <<>> THEN entries[1] ELSE NoEntry

\* Map.get(p)
getEntry(entries, p) == IF HasEntry(entries, p) THEN EntryOf(entries, p) ELSE NoEntry

\* readTreeEntries: the entries of a tree, none for an absent tree
readTreeEntries(treeSha) == IF treeSha = Null THEN <<>> ELSE readTree(treeSha)

RECURSIVE dedupe(_)
dedupe(names) ==
  IF names = <<>> THEN <<>>
  ELSE LET front == dedupe(SubSeq(names, 1, Len(names) - 1))
           last == names[Len(names)]
       IN IF \E i \in DOMAIN front : front[i] = last THEN front ELSE Append(front, last)

keysOf(entries) == [i \in DOMAIN entries |-> entries[i].path]

\* resolutions[p] is truthy: the key is present and its content is not ''
hasResolution(resolutions, p) ==
  <<p>> \in DOMAIN resolutions /\ resolutions[<<p>>] # ""

RECURSIVE mergeTrees(_, _, _, _)
mergeTrees(baseTreeSha, ourTreeSha, theirTreeSha, resolutions) ==
  IF \E t \in {baseTreeSha, ourTreeSha, theirTreeSha} : t # Null /\ ~IsTree(t)
  THEN Err("ObjectTypeError")
  ELSE
    LET baseEntries == readTreeEntries(baseTreeSha)
        ourEntries == readTreeEntries(ourTreeSha)
        theirEntries == readTreeEntries(theirTreeSha)
        allPaths == dedupe(keysOf(baseEntries) \o keysOf(ourEntries) \o keysOf(theirEntries))
        RECURSIVE loop(_, _, _)
        loop(i, newEntries, conflicts) ==
          IF i > Len(allPaths)
          THEN IF Len(conflicts) > 0 /\ DOMAIN resolutions = {}
               THEN [k |-> "merged", treeSha |-> Null, conflicts |-> conflicts]
               ELSE IF Len(newEntries) = 0
               THEN [k |-> "merged", treeSha |-> Null, conflicts |-> conflicts]
               ELSE [k |-> "merged", treeSha |-> writeTree(newEntries),
                     conflicts |-> conflicts]
          ELSE
            LET p == allPaths[i]
                base == getEntry(baseEntries, p)
                ours == getEntry(ourEntries, p)
                theirs == getEntry(theirEntries, p)
                baseSha == base.oid
                ourSha == ours.oid
                theirSha == theirs.oid
                isDir == ours.type = "tree" \/ theirs.type = "tree"
            IN IF isDir
               THEN LET result == mergeTrees(baseSha, ourSha, theirSha, resolutions)
                    IN IF IsErr(result) THEN result
                       ELSE loop(i + 1,
                                 IF result.treeSha # Null
                                 THEN Append(newEntries, dirEntry(p, result.treeSha))
                                 ELSE newEntries,
                                 conflicts \o result.conflicts)
               ELSE IF ourSha = theirSha
               THEN loop(i + 1,
                         IF ours # NoEntry THEN Append(newEntries, ours) ELSE newEntries,
                         conflicts)
               ELSE IF ourSha = baseSha /\ theirSha # baseSha
               THEN loop(i + 1,
                         IF theirs # NoEntry THEN Append(newEntries, theirs) ELSE newEntries,
                         conflicts)
               ELSE IF ourSha # baseSha /\ theirSha = baseSha
               THEN loop(i + 1,
                         IF ours # NoEntry THEN Append(newEntries, ours) ELSE newEntries,
                         conflicts)
               ELSE IF hasResolution(resolutions, p)
               THEN loop(i + 1,
                         Append(newEntries, fileEntry(p, Blob(resolutions[<<p>>]))),
                         conflicts)
               ELSE loop(i + 1, newEntries, Append(conflicts, p))
    IN loop(1, <<>>, <<>>)

(***************************************************************************)
(* What each committing operation computes between reading the branch tip  *)
(* and updating the reference.  Every object it reads is immutable, so the *)
(* result depends on the tip and the input only.                           *)
(***************************************************************************)
Built(treeSha, commitSha, extra) ==
  [k |-> "built", treeSha |-> treeSha, commitSha |-> commitSha, extra |-> extra]

RECURSIVE upsertAll(_, _)
upsertAll(currentTreeSha, files) ==
  IF files = <<>> THEN currentTreeSha
  ELSE LET next == upsertFileInTree(currentTreeSha, pathParts(files[1].filePath),
                                    Blob(files[1].content))
       IN IF IsErr(next) THEN next ELSE upsertAll(next, Tail(files))

\* add-many-files.ts, lines 38-116
buildAddManyFiles(parentSha, files, author) ==
  LET rootTreeSha == IF parentSha # Null THEN commitTree(parentSha) ELSE Null
  IN IF \E i \in DOMAIN files : pathParts(files[i].filePath) = <<>>
     THEN Err("INVALID_PATH")
     ELSE LET currentTreeSha == upsertAll(rootTreeSha, files)
          IN IF IsErr(currentTreeSha) THEN currentTreeSha
             ELSE Built(currentTreeSha,
                        writeCommit(currentTreeSha,
                                    IF parentSha # Null THEN <<parentSha>> ELSE <<>>,
                                    author, "Add"),
                        Len(files))

\* a batch that skips the paths it cannot remove
RECURSIVE removeAllSkipsFailed(_, _)
removeAllSkipsFailed(currentTreeSha, filePaths) ==
  IF filePaths = <<>> THEN currentTreeSha
  ELSE IF currentTreeSha = Null THEN Null
  ELSE LET next == removeFileFromTree(currentTreeSha, pathParts(filePaths[1]))
       IN removeAllSkipsFailed(IF IsErr(next) THEN currentTreeSha ELSE next,
                               Tail(filePaths))

RECURSIVE removeAll(_, _)
removeAll(currentTreeSha, filePaths) ==
  IF filePaths = <<>> THEN currentTreeSha
  ELSE IF currentTreeSha = Null THEN Err("OPERATION_FAILED")
  ELSE LET next == removeFileFromTree(currentTreeSha, pathParts(filePaths[1]))
       IN IF IsErr(next) THEN next ELSE removeAll(next, Tail(filePaths))

\* remove-many-files.ts, lines 41-105
buildRemoveManyFiles(parentSha, filePaths, author) ==
  LET rootTreeSha == commitTree(parentSha)
  IN IF \E i \in DOMAIN filePaths : pathParts(filePaths[i]) = <<>>
     THEN Err("INVALID_PATH")
     ELSE LET currentTreeSha == removeAll(rootTreeSha, filePaths)
              finalTreeSha == IF currentTreeSha # Null THEN currentTreeSha
                              ELSE writeTree(<<>>)
          IN IF IsErr(currentTreeSha) THEN currentTreeSha
             ELSE Built(currentTreeSha,
                        writeCommit(finalTreeSha, <<parentSha>>, author, "Remove"),
                        Len(filePaths))

\* removeDirectory (add-placeholder.ts, lines 204-251)
buildRemoveDirectory(parentSha, directoryPath, author) ==
  LET rootTreeSha == commitTree(parentSha)
      parts == pathParts(directoryPath)
      target == resolvePath(rootTreeSha, parts)
  IN IF IsErr(target) THEN target
     ELSE IF target.type # "tree" THEN Err("INVALID_PATH")
     ELSE LET filesRemoved == countFilesInTree(target.sha)
              newTreeSha == removeDirectoryFromTree(rootTreeSha, parts)
              finalTreeSha == IF newTreeSha # Null THEN newTreeSha ELSE writeTree(<<>>)
          IN IF IsErr(newTreeSha) THEN newTreeSha
             ELSE Built(newTreeSha,
                        writeCommit(finalTreeSha, <<parentSha>>, author,
                                    "Remove directory"),
                        filesRemoved)

\* mergeBranches (merge-branches.ts, lines 150-201), for one merge base
buildMerge(baseSha, destSha, sourceSha, resolutions, author) ==
  LET result == mergeTrees(commitTree(baseSha), commitTree(destSha),
                           commitTree(sourceSha),
                           IF resolutions.given THEN resolutions.map ELSE <<>>)
  IN IF IsErr(result) THEN result
     ELSE IF Len(result.conflicts) > 0 /\ ~resolutions.given
     THEN [k |-> "error", code |-> "MERGE_CONFLICT", resource |-> "",
           conflicts |-> result.conflicts]
     ELSE IF result.treeSha = Null THEN Err("OPERATION_FAILED")
     ELSE Built(result.treeSha,
                writeCommit(result.treeSha, <<destSha, sourceSha>>, author, "Merge"),
                result.conflicts)

(***************************************************************************)
(* The repositories the clients start from and the inputs they give        *)
(***************************************************************************)
File(filePath, content) == [filePath |-> filePath, content |-> content]

AddBatches ==
  { <<File(<<"a">>, "y")>>,
    <<File(<<"a", "/", "b">>, "z")>>,
    <<File(<<"b">>, "x"), File(<<"/">>, "y")>>,
    <<File(<<"a", "/", "..">>, "y")>> }

RemoveBatches ==
  { <<<<"/", "a", "/", "b">>>>,
    <<<<"a">>, <<"b">>>>,
    <<<<"b">>, <<"a", "/", "a">>>> }

DirectoryPaths == { <<"a">>, <<"a", "/", "..">> }

NoResolutions == [given |-> FALSE, map |-> <<>>]

Resolutions(map) == [given |-> TRUE, map |-> map]

MergeInputs ==
  { [sourceBranch |-> "dev", destinationBranch |-> "main", resolutions |-> r] :
      r \in {NoResolutions, Resolutions(<<>>), Resolutions(<<"a", "b">> :> "x")} }

InitialCommit(tree) == writeCommit(tree, <<>>, "p0", "Initial commit")

TreeNested(blob) == writeTree(<<dirEntry("a", writeTree(<<fileEntry("b", blob)>>))>>)

\* after createBare with the initial file a/b
RepoNested ==
  [b \in Branches |-> IF b = "main" THEN InitialCommit(TreeNested(BlobX)) ELSE Null]

\* after createBare with a/b, createBranch dev, addFile of b on main and
\* addFile of a/b on dev
RepoDiverged ==
  LET c0 == InitialCommit(TreeNested(BlobX))
      c1 == writeCommit(upsertFileInTree(c0.tree, <<"b">>, BlobY), <<c0>>, "p0", "Add")
      c2 == writeCommit(TreeNested(BlobY), <<c0>>, "p0", "Add")
  IN [b \in Branches |-> IF b = "main" THEN c1 ELSE c2]

InitRepos == {RepoNested, RepoDiverged}

(***************************************************************************)
(* The clients' operations, one action per Object Store call that reads or *)
(* writes a reference (the suspension points between which other clients'  *)
(* calls interleave).                                                      *)
(***************************************************************************)
NoLocals ==
  [parentSha |-> Null, sourceSha |-> Null, commitSha |-> Null, treeSha |-> Null,
   extra |-> Null, currentSha |-> Null]

NoResult == [k |-> "none"]

TwIdle == [op |-> "none", root |-> Null, path |-> <<>>, blob |-> Null, out |-> Null]

MtIdle ==
  [op |-> "none", base |-> Null, ours |-> Null, theirs |-> Null, resolutions |-> <<>>,
   out |-> Null]

LsIdle == [op |-> "none", tree |-> <<>>, out |-> <<>>]

Failure(code) == [k |-> "returned", ok |-> FALSE, code |-> code]

Success(commitSha, treeSha, extra) ==
  [k |-> "returned", ok |-> TRUE, code |-> "", commitSha |-> commitSha,
   treeSha |-> treeSha, extra |-> extra]

Call(name, ref, value, old) == [call |-> name, ref |-> ref, value |-> value, old |-> old]

Threw == [k |-> "threw"]

OpsIdle ==
  /\ refs = [b \in Branches |-> Null]
  /\ pc = [p \in Procs |-> "idle"]
  /\ op = [p \in Procs |-> [kind |-> "none"]]
  /\ loc = [p \in Procs |-> NoLocals]
  /\ returned = [p \in Procs |-> NoResult]
  /\ calls = [p \in Procs |-> <<>>]
  /\ nOps = 0
  /\ faults = 0
  /\ succeeded = {}

\* An Object Store call may fail while the budget lasts.
FaultChoices == IF faults < MaxFaults THEN {FALSE, TRUE} ELSE {FALSE}

CanBegin(p) == pc[p] \in {"idle", "done"} /\ nOps < MaxOps

\* The operation ends by throwing.
Fail(p, code, newCalls, fault) ==
  /\ pc' = [pc EXCEPT ![p] = "done"]
  /\ returned' = [returned EXCEPT ![p] = Failure(code)]
  /\ calls' = [calls EXCEPT ![p] = newCalls]
  /\ faults' = IF fault THEN faults + 1 ELSE faults

\* The operation goes on to its next call.
Goto(p, label, newCalls, fault) ==
  /\ pc' = [pc EXCEPT ![p] = label]
  /\ calls' = [calls EXCEPT ![p] = newCalls]
  /\ faults' = IF fault THEN faults + 1 ELSE faults

\* git.resolveRef throws when the reference does not exist or the read fails.
resolveRefThrows(ref, fault) == fault \/ refs[ref] = Null

\* addManyFiles (addFile): the operation starts and resolves the branch tip;
\* a resolveRef that throws leaves parentSha null.
BeginAdd(p) ==
  \E ref \in Branches, files \in AddBatches, fault \in FaultChoices :
    LET parentSha == IF resolveRefThrows(ref, fault) THEN Null ELSE refs[ref]
    IN /\ CanBegin(p)
       /\ nOps' = nOps + 1
       /\ op' = [op EXCEPT ![p] = [kind |-> "addManyFiles", ref |-> ref, files |-> files]]
       /\ loc' = [loc EXCEPT ![p] = [NoLocals EXCEPT !.parentSha = parentSha]]
       /\ returned' = [returned EXCEPT ![p] = NoResult]
       /\ Goto(p, "build",
               <<Call("resolveRef", ref, IF fault THEN Threw ELSE refs[ref], Null)>>, fault)
       /\ UNCHANGED <<tw, mt, ls, refs, succeeded>>

\* removeManyFiles (removeFile): the duplicate check, then the branch tip.
BeginRemoveFrom(p, batches) ==
  \E ref \in Branches, filePaths \in batches, fault \in FaultChoices :
    /\ CanBegin(p)
    /\ nOps' = nOps + 1
    /\ op' = [op EXCEPT ![p] =
                [kind |-> "removeManyFiles", ref |-> ref, filePaths |-> filePaths]]
    /\ IF hasDuplicates(filePaths)
       THEN /\ ~fault
            /\ loc' = [loc EXCEPT ![p] = NoLocals]
            /\ Fail(p, "INVALID_INPUT", <<>>, FALSE)
       ELSE IF resolveRefThrows(ref, fault)
       THEN /\ loc' = [loc EXCEPT ![p] = NoLocals]
            /\ Fail(p, "OPERATION_FAILED", <<Call("resolveRef", ref, Threw, Null)>>, fault)
       ELSE /\ loc' = [loc EXCEPT ![p] = [NoLocals EXCEPT !.parentSha = refs[ref]]]
            /\ returned' = [returned EXCEPT ![p] = NoResult]
            /\ Goto(p, "build", <<Call("resolveRef", ref, refs[ref], Null)>>, FALSE)
    /\ UNCHANGED <<tw, mt, ls, refs, succeeded>>

BeginRemove(p) == BeginRemoveFrom(p, RemoveBatches)

\* removeDirectory: the path validation, then the branch tip.
BeginRemoveDirectory(p) ==
  \E ref \in Branches, directoryPath \in DirectoryPaths, fault \in FaultChoices :
    /\ CanBegin(p)
    /\ nOps' = nOps + 1
    /\ op' = [op EXCEPT ![p] =
                [kind |-> "removeDirectory", ref |-> ref, directoryPath |-> directoryPath]]
    /\ IF ~validDirectoryPath(directoryPath)
       THEN /\ ~fault
            /\ loc' = [loc EXCEPT ![p] = NoLocals]
            /\ Fail(p, "INVALID_PATH", <<>>, FALSE)
       ELSE IF resolveRefThrows(ref, fault)
       THEN /\ loc' = [loc EXCEPT ![p] = NoLocals]
            /\ Fail(p, "OPERATION_FAILED", <<Call("resolveRef", ref, Threw, Null)>>, fault)
       ELSE /\ loc' = [loc EXCEPT ![p] = [NoLocals EXCEPT !.parentSha = refs[ref]]]
            /\ returned' = [returned EXCEPT ![p] = NoResult]
            /\ Goto(p, "build", <<Call("resolveRef", ref, refs[ref], Null)>>, FALSE)
    /\ UNCHANGED <<tw, mt, ls, refs, succeeded>>

\* mergeBranches: the operation starts and resolves the source branch.
BeginMerge(p) ==
  \E m \in MergeInputs, fault \in FaultChoices :
    /\ CanBegin(p)
    /\ nOps' = nOps + 1
    /\ op' = [op EXCEPT ![p] =
                [kind |-> "mergeBranches", ref |-> m.destinationBranch,
                 sourceBranch |-> m.sourceBranch, resolutions |-> m.resolutions]]
    /\ IF resolveRefThrows(m.sourceBranch, fault)
       THEN /\ loc' = [loc EXCEPT ![p] = NoLocals]
            /\ Fail(p, "OPERATION_FAILED",
                    <<Call("resolveRef", m.sourceBranch, Threw, Null)>>, fault)
       ELSE /\ loc' = [loc EXCEPT ![p] = [NoLocals EXCEPT !.sourceSha = refs[m.sourceBranch]]]
            /\ returned' = [returned EXCEPT ![p] = NoResult]
            /\ Goto(p, "mergeDest",
                    <<Call("resolveRef", m.sourceBranch, refs[m.sourceBranch], Null)>>, FALSE)
    /\ UNCHANGED <<tw, mt, ls, refs, succeeded>>

\* mergeBranches: resolve the destination branch.
MergeResolveDest(p) ==
  \E fault \in FaultChoices :
    /\ pc[p] = "mergeDest"
    /\ IF resolveRefThrows(op[p].ref, fault)
       THEN /\ Fail(p, "OPERATION_FAILED",
                    Append(calls[p], Call("resolveRef", op[p].ref, Threw, Null)), fault)
            /\ UNCHANGED loc
       ELSE /\ loc' = [loc EXCEPT ![p].parentSha = refs[op[p].ref]]
            /\ Goto(p, "mergeBuild",
                    Append(calls[p], Call("resolveRef", op[p].ref, refs[op[p].ref], Null)),
                    FALSE)
            /\ UNCHANGED returned
    /\ UNCHANGED <<tw, mt, ls, refs, op, nOps, succeeded>>

\* What the operation builds from the tip it read.
buildOf(p) ==
  CASE op[p].kind = "addManyFiles" ->
         buildAddManyFiles(loc[p].parentSha, op[p].files, p)
    [] op[p].kind = "removeManyFiles" ->
         buildRemoveManyFiles(loc[p].parentSha, op[p].filePaths, p)
    [] op[p].kind = "removeDirectory" ->
         buildRemoveDirectory(loc[p].parentSha, op[p].directoryPath, p)

\* After a build: the commit is written and the reference update is next, or
\* the operation throws.  A failed Object Store call throws before the commit
\* is written.
AfterBuild(p, built, next, fault) ==
  IF fault
  THEN /\ Fail(p, "OPERATION_FAILED", Append(calls[p], Call("read", Null, Threw, Null)), TRUE)
       /\ UNCHANGED loc
  ELSE IF IsErr(built)
  THEN /\ Fail(p, wrapError(built), calls[p], FALSE)
       /\ loc' = [loc EXCEPT ![p].extra = built]
  ELSE /\ loc' = [loc EXCEPT ![p].commitSha = built.commitSha,
                             ![p].treeSha = built.treeSha,
                             ![p].extra = built.extra]
       /\ Goto(p, next, Append(calls[p], Call("writeCommit", Null, built.commitSha, Null)),
               FALSE)
       /\ UNCHANGED returned

\* The add and remove operations: read the tip's tree, write the blobs, rebuild
\* the trees, write the commit.
BuildCommit(p) ==
  \E fault \in FaultChoices :
    /\ pc[p] = "build"
    /\ AfterBuild(p, buildOf(p), "cas", fault)
    /\ UNCHANGED <<tw, mt, ls, refs, op, nOps, succeeded>>

\* mergeBranches: find the merge base, merge the trees, write the merge commit.
BuildMerge(p) ==
  \E fault \in FaultChoices :
    LET mergeBases == findMergeBase(loc[p].parentSha, loc[p].sourceSha)
    IN /\ pc[p] = "mergeBuild"
       /\ IF mergeBases = {} /\ ~fault
          THEN /\ Fail(p, "OPERATION_FAILED", calls[p], FALSE)
               /\ UNCHANGED loc
          ELSE \E baseSha \in (IF mergeBases = {} THEN {Null} ELSE mergeBases) :
                 AfterBuild(p,
                            IF fault THEN Null
                            ELSE buildMerge(baseSha, loc[p].parentSha, loc[p].sourceSha,
                                            op[p].resolutions, p),
                            "mergeWrite", fault)
       /\ UNCHANGED <<tw, mt, ls, refs, op, nOps, succeeded>>

\* a comparison that never fails
casMatchesAlways(currentSha, expectedSha) == TRUE

\* concurrency.ts, lines 17-27: read the reference and compare.  A resolveRef
\* that throws leaves currentSha null.
casMatches(currentSha, expectedSha) == currentSha = expectedSha

CasResolve(p) ==
  \E fault \in FaultChoices :
    LET ref == op[p].ref
        currentSha == IF resolveRefThrows(ref, fault) THEN Null ELSE refs[ref]
        read == Call("resolveRef", ref, IF fault THEN Threw ELSE refs[ref], refs[ref])
    IN /\ pc[p] = "cas"
       /\ loc' = [loc EXCEPT ![p].currentSha = currentSha]
       /\ IF casMatches(currentSha, loc[p].parentSha)
          THEN Goto(p, "casWrite", Append(calls[p], read), fault) /\ UNCHANGED returned
          ELSE Fail(p, "CONCURRENCY_ERROR", Append(calls[p], read), fault)
       /\ UNCHANGED <<tw, mt, ls, refs, op, nOps, succeeded>>

\* a write that goes to the branch of HEAD
WriteRefOfHead(p, fault) ==
  LET ref == op[p].ref
  IN IF fault
     THEN /\ Fail(p, "OPERATION_FAILED",
                  Append(calls[p], Call("writeRef", ref, Threw, refs[ref])), TRUE)
          /\ UNCHANGED <<refs, succeeded>>
     ELSE /\ refs' = [refs EXCEPT !["main"] = loc[p].commitSha]
          /\ succeeded' = succeeded \cup {[ref |-> ref, commit |-> loc[p].commitSha]}
          /\ pc' = [pc EXCEPT ![p] = "done"]
          /\ returned' = [returned EXCEPT ![p] =
                          Success(loc[p].commitSha, loc[p].treeSha, loc[p].extra)]
          /\ calls' = [calls EXCEPT ![p] =
                         Append(calls[p], Call("writeRef", ref, loc[p].commitSha, refs[ref]))]
          /\ UNCHANGED faults

\* The reference is written and the operation returns.
WriteRef(p, fault) ==
  LET ref == op[p].ref
  IN IF fault
     THEN /\ Fail(p, "OPERATION_FAILED",
                  Append(calls[p], Call("writeRef", ref, Threw, refs[ref])), TRUE)
          /\ UNCHANGED <<refs, succeeded>>
     ELSE /\ refs' = [refs EXCEPT ![ref] = loc[p].commitSha]
          /\ succeeded' = succeeded \cup {[ref |-> ref, commit |-> loc[p].commitSha]}
          /\ pc' = [pc EXCEPT ![p] = "done"]
          /\ returned' = [returned EXCEPT ![p] =
                          Success(loc[p].commitSha, loc[p].treeSha, loc[p].extra)]
          /\ calls' = [calls EXCEPT ![p] =
                         Append(calls[p], Call("writeRef", ref, loc[p].commitSha, refs[ref]))]
          /\ UNCHANGED faults

\* concurrency.ts, lines 29-30
CasWrite(p) ==
  \E fault \in FaultChoices :
    /\ pc[p] = "casWrite"
    /\ WriteRef(p, fault)
    /\ UNCHANGED <<tw, mt, ls, op, loc, nOps>>

\* merge-branches.ts, lines 203-216
MergeWriteRef(p) ==
  \E fault \in FaultChoices :
    /\ pc[p] = "mergeWrite"
    /\ WriteRef(p, fault)
    /\ UNCHANGED <<tw, mt, ls, op, loc, nOps>>

Init ==
  /\ tw = TwIdle
  /\ mt = MtIdle
  /\ ls = LsIdle
  /\ refs \in InitRepos
  /\ pc = [p \in Procs |-> "idle"]
  /\ op = [p \in Procs |-> [kind |-> "none"]]
  /\ loc = [p \in Procs |-> NoLocals]
  /\ returned = [p \in Procs |-> NoResult]
  /\ calls = [p \in Procs |-> <<>>]
  /\ nOps = 0
  /\ faults = 0
  /\ succeeded = {}

Next ==
  \E p \in Procs :
    \/ BeginAdd(p)
    \/ BeginRemove(p)
    \/ BeginRemoveDirectory(p)
    \/ BeginMerge(p)
    \/ MergeResolveDest(p)
    \/ BuildCommit(p)
    \/ BuildMerge(p)
    \/ CasResolve(p)
    \/ CasWrite(p)
    \/ MergeWriteRef(p)

Spec == Init /\ [][Next]_vars

(***************************************************************************)
(* removeManyFiles on batches that name a file twice                       *)
(***************************************************************************)
\* batches whose two entries are the same string, or two spellings of one
\* path, and batches of one path
DuplicateBatches ==
  { <<<<"a">>, <<"a">>>>,
    <<<<"a">>, <<"/", "a">>>>,
    <<<<"a", "/", "b">>>>,
    <<<<"b">>>> }

NextDuplicates ==
  \E p \in Procs :
    \/ BeginRemoveFrom(p, DuplicateBatches)
    \/ BuildCommit(p)
    \/ CasResolve(p)
    \/ CasWrite(p)

SpecDuplicates == Init /\ [][NextDuplicates]_vars

(***************************************************************************)
(* Properties of the operations (checked under Spec)                       *)
(***************************************************************************)
\* The operations that update the reference through compareAndSwap.
CasKinds == {"addManyFiles", "removeManyFiles", "removeDirectory"}

\* The calls of a compareAndSwap operation are: resolveRef (the tip),
\* writeCommit, resolveRef (compareAndSwap), writeRef (compareAndSwap).
casCalled(p) == op[p].kind \in CasKinds /\ Len(calls[p]) >= 3

casRead(p) == calls[p][3]

wroteRef(p) ==
  \E i \in DOMAIN calls[p] : calls[p][i].call = "writeRef" /\ calls[p][i].value # Threw

Done(p) == pc[p] = "done" /\ op[p].kind # "none"

\* C1: if a committing operation read tip T of a branch and the branch points
\* to T' # T when the operation calls compareAndSwap, then compareAndSwap
\* fails with CONCURRENCY_ERROR without a reference write, so that the branch
\* still points to T'.
C1_StaleCasFails ==
  \A p \in Procs :
    (casCalled(p) /\ loc[p].parentSha # Null /\ casRead(p).old # loc[p].parentSha) =>
      /\ pc[p] = "done"
      /\ returned[p] = Failure("CONCURRENCY_ERROR")
      /\ Len(calls[p]) = 3

C1_Witness ==
  \E p \in Procs :
    /\ casCalled(p) /\ loc[p].parentSha # Null /\ casRead(p).old # loc[p].parentSha
    /\ casRead(p).old # Null
    /\ returned[p] = Failure("CONCURRENCY_ERROR")
    /\ refs[op[p].ref] = casRead(p).old

\* C2: of two compareAndSwap calls on the same reference that carry the same
\* expected OID and different new OIDs, at most one succeeds, whatever the
\* interleaving of their resolveRef and writeRef calls.
C2_SingleWriterWins ==
  \A p, q \in Procs :
    (/\ p # q /\ faults = 0
     /\ Done(p) /\ Done(q) /\ casCalled(p) /\ casCalled(q)
     /\ op[p].ref = op[q].ref
     /\ loc[p].parentSha = loc[q].parentSha
     /\ loc[p].commitSha # loc[q].commitSha) =>
      ~(returned[p].ok /\ returned[q].ok)

\* C3: after any interleaving of add and remove operations on the branches,
\* every commit whose operation returned success is reachable from its
\* branch's tip by following parent links.
C3_NoLostUpdate ==
  (faults = 0 /\ \A s \in succeeded : s.commit.message # "Merge") =>
    \A s \in succeeded : s.commit \in Ancestors(refs[s.ref])

\* C4: every operation that advances a branch reference does so in its last
\* store call, through compareAndSwap with the tip it read at its start as the
\* expected OID; a mergeBranches writes the destination reference only if it
\* still holds the tip the merge read.
C4_RefWriteThroughCas ==
  \A p \in Procs :
    /\ (op[p].kind \in CasKinds /\ wroteRef(p)) =>
         /\ Len(calls[p]) = 4
         /\ calls[p][3].call = "resolveRef" /\ calls[p][3].ref = op[p].ref
         /\ calls[p][3].value = loc[p].parentSha \/ loc[p].parentSha = Null
         /\ calls[p][4].call = "writeRef" /\ calls[p][4].ref = op[p].ref
    /\ (op[p].kind = "mergeBranches") =>
         \A i \in DOMAIN calls[p] :
           calls[p][i].call = "writeRef" =>
             /\ i = Len(calls[p])
             /\ calls[p][i].old = loc[p].parentSha

addFails(p) ==
  \E i \in DOMAIN op[p].files : pathParts(op[p].files[i].filePath) = <<>>

removeFails(p) ==
  /\ ~hasDuplicates(op[p].filePaths)
  /\ loc[p].parentSha # Null
  /\ \E i \in DOMAIN op[p].filePaths :
       IsErr(resolvePath(commitTree(loc[p].parentSha), pathParts(op[p].filePaths[i])))

\* C6: a batch operation in which one path fails (an empty path of
\* addManyFiles, a path of removeManyFiles that does not exist) aborts as a
\* whole once its trees are built: it fails, writes no commit and does not
\* write the reference.
C6_BatchAborts ==
  \A p \in Procs :
    (/\ pc[p] # "build"
     /\ \/ op[p].kind = "addManyFiles" /\ addFails(p)
        \/ op[p].kind = "removeManyFiles" /\ removeFails(p)) =>
      /\ pc[p] = "done" /\ ~returned[p].ok
      /\ returned[p].code \in {"INVALID_PATH", "NOT_FOUND", "OPERATION_FAILED"}
      /\ \A i \in DOMAIN calls[p] : calls[p][i].call \notin {"writeCommit", "writeRef"}

C6_Witness ==
  \E p \in Procs :
    /\ op[p].kind = "removeManyFiles" /\ Done(p) /\ faults = 0
    /\ Len(op[p].filePaths) = 2
    /\ loc[p].parentSha # Null
    /\ ~IsErr(resolvePath(commitTree(loc[p].parentSha), pathParts(op[p].filePaths[1])))
    /\ IsErr(resolvePath(commitTree(loc[p].parentSha), pathParts(op[p].filePaths[2])))
    /\ returned[p] = Failure("NOT_FOUND")
    /\ refs[op[p].ref] = loc[p].parentSha

\* The directory at the path holds exactly one file.
onlyFileUnder(treeSha, parts) ==
  LET r == resolvePath(treeSha, parts)
  IN ~IsErr(r) /\ r.type = "tree" /\ countFilesInTree(r.sha) = 1

RECURSIVE NoEmptyDirectory(_)
NoEmptyDirectory(treeSha) ==
  \A i \in DOMAIN readTree(treeSha) :
    readTree(treeSha)[i].type = "tree" =>
      /\ readTree(readTree(treeSha)[i].oid) # <<>>
      /\ NoEmptyDirectory(readTree(treeSha)[i].oid)

\* C10: a successful removal of the only file under a chain of directories
\* drops every directory of the chain, and no directory of the new tree is
\* empty; if the root itself becomes empty the tree function returns null, the
\* operation reports treeSha null and its commit points to the empty tree.
C10_PruningOnRemoval ==
  \A p \in Procs :
    (op[p].kind = "removeManyFiles" /\ Done(p) /\ returned[p].ok) =>
      LET old == commitTree(loc[p].parentSha)
          new == commitTree(returned[p].commitSha)
          parts == pathParts(op[p].filePaths[1])
      IN /\ NoEmptyDirectory(new)
         /\ IF returned[p].treeSha = Null THEN new = EmptyTree
            ELSE new = returned[p].treeSha
         /\ Len(op[p].filePaths) = 1 =>
              /\ \A k \in 1..(Len(parts) - 1) :
                   onlyFileUnder(old, SubSeq(parts, 1, k)) =>
                     IsErr(resolvePath(new, SubSeq(parts, 1, k)))
              /\ countFilesInTree(old) = 1 =>
                   returned[p].treeSha = Null /\ new = EmptyTree

C10_Witness ==
  \E p \in Procs :
    /\ op[p].kind = "removeManyFiles" /\ Done(p) /\ returned[p].ok
    /\ Len(op[p].filePaths) = 1
    /\ Len(pathParts(op[p].filePaths[1])) = 2
    /\ onlyFileUnder(commitTree(loc[p].parentSha), <<op[p].filePaths[1][2]>>)
    /\ returned[p].treeSha = Null
    /\ commitTree(refs[op[p].ref]) = EmptyTree

\* C11: no directory entry of any tree reachable from a branch tip (through
\* the tip's ancestors) points to a tree with zero entries, after any
\* sequence of add, remove, remove-directory and merge operations.
C11_NoEmptyDirectoryReachable ==
  \A b \in Branches :
    refs[b] # Null => \A c \in Ancestors(refs[b]) : NoEmptyDirectory(commitTree(c))

C11_Witness ==
  \E p \in Procs :
    /\ op[p].kind \in {"removeManyFiles", "removeDirectory"}
    /\ Done(p) /\ returned[p].ok
    /\ onlyFileUnder(commitTree(loc[p].parentSha), <<"a">>)
    /\ refs[op[p].ref] = returned[p].commitSha
    /\ commitTree(refs[op[p].ref]) # EmptyTree
    /\ ~HasEntry(readTree(commitTree(refs[op[p].ref])), "a")

\* What a tree holds at a path: the entry's OID and kind, or nothing.
sideAt(treeSha, parts) ==
  LET r == resolvePath(treeSha, parts)
  IN IF IsErr(r) THEN [oid |-> Null, type |-> "none"] ELSE [oid |-> r.sha, type |-> r.type]

\* The path is a conflict of the three-way merge: every proper prefix is a
\* directory or missing on each side, neither changed side holds a directory
\* at the path, and both sides differ from the base and from each other.
conflictAt(base, ours, theirs, parts) ==
  /\ \A k \in 1..(Len(parts) - 1) :
       \A t \in {base, ours, theirs} :
         sideAt(t, SubSeq(parts, 1, k)).type \in {"tree", "none"}
  /\ sideAt(ours, parts).type # "tree" /\ sideAt(theirs, parts).type # "tree"
  /\ sideAt(ours, parts).oid # sideAt(base, parts).oid
  /\ sideAt(theirs, parts).oid # sideAt(base, parts).oid
  /\ sideAt(ours, parts).oid # sideAt(theirs, parts).oid

ConflictingPaths(base, ours, theirs) ==
  {parts \in Paths : conflictAt(base, ours, theirs, parts)}

\* The paths a conflict list names, an entry of the list being one path.
reportedPaths(conflicts) == {<<conflicts[i]>> : i \in DOMAIN conflicts}

\* The merge has read both tips and no Object Store call of it has failed.
mergeRan(p) ==
  /\ op[p].kind = "mergeBranches" /\ Done(p)
  /\ Len(calls[p]) >= 2
  /\ \A i \in DOMAIN calls[p] : calls[p][i].value # Threw

\* The conflicts of the merge, for the merge base the Object Store finds.
conflictsOf(p) ==
  UNION {ConflictingPaths(commitTree(baseSha), commitTree(loc[p].parentSha),
                          commitTree(loc[p].sourceSha)) :
           baseSha \in findMergeBase(loc[p].parentSha, loc[p].sourceSha)}

\* C14: when both branches changed a file differently from the base and the
\* caller gives no resolution map, mergeBranches fails with MERGE_CONFLICT,
\* its conflict list names exactly the conflicting paths, without duplicates;
\* no merge commit is written and no reference is written.
C14_MergeConflictExact ==
  \A p \in Procs :
    (mergeRan(p) /\ ~op[p].resolutions.given /\ conflictsOf(p) # {}) =>
      /\ returned[p] = Failure("MERGE_CONFLICT")
      /\ reportedPaths(loc[p].extra.conflicts) = conflictsOf(p)
      /\ Len(loc[p].extra.conflicts) = Cardinality(conflictsOf(p))
      /\ \A i \in DOMAIN calls[p] : calls[p][i].call \notin {"writeCommit", "writeRef"}

\* The conflicts of the merge that the caller's resolution map does not cover.
uncoveredOf(p) == conflictsOf(p) \ DOMAIN op[p].resolutions.map

\* C17: when the caller gives a resolution map that does not cover every
\* conflict (an empty map included), mergeBranches does not fail: it commits
\* a tree without an entry for each uncovered conflicting path, advances the
\* destination and returns the uncovered paths in its conflict list.
C17_PartialResolutions ==
  \A p \in Procs :
    (mergeRan(p) /\ op[p].resolutions.given /\ uncoveredOf(p) # {}) =>
      /\ returned[p].ok
      /\ uncoveredOf(p) \subseteq reportedPaths(returned[p].extra)
      /\ \A P \in uncoveredOf(p) : sideAt(returned[p].treeSha, P).type = "none"
      /\ calls[p][Len(calls[p])].call = "writeRef"

\* The histories of the two tips share no commit.
disjointHistories(p) ==
  Ancestors(loc[p].parentSha) \cap Ancestors(loc[p].sourceSha) = {}

\* C18: when the two branches have no common ancestor, mergeBranches fails
\* with OPERATION_FAILED before any tree is merged: after resolving the two
\* tips it makes no further call, writes no commit and no reference.
C18_NoCommonAncestorFails ==
  \A p \in Procs :
    (mergeRan(p) /\ disjointHistories(p)) =>
      /\ returned[p] = Failure("OPERATION_FAILED")
      /\ Len(calls[p]) = 2
      /\ loc[p].extra = Null /\ loc[p].commitSha = Null

C18_Witness ==
  \E p \in Procs :
    /\ mergeRan(p) /\ disjointHistories(p)
    /\ returned[p] = Failure("OPERATION_FAILED")
    /\ refs[op[p].ref] = loc[p].parentSha
    /\ refs[op[p].sourceBranch] = loc[p].sourceSha

\* The normalized path is empty or has a '.' or '..' segment.
invalidPath(filePath) ==
  \/ pathParts(filePath) = <<>>
  \/ \E i \in DOMAIN pathParts(filePath) : pathParts(filePath)[i] \in {".", ".."}

takesInvalidPath(p) ==
  \/ /\ op[p].kind = "addManyFiles"
     /\ \E i \in DOMAIN op[p].files : invalidPath(op[p].files[i].filePath)
  \/ /\ op[p].kind = "removeManyFiles"
     /\ \E i \in DOMAIN op[p].filePaths : invalidPath(op[p].filePaths[i])
  \/ /\ op[p].kind = "removeDirectory"
     /\ invalidPath(op[p].directoryPath)

\* C19: every path-taking mutation rejects with INVALID_PATH a path whose
\* normalized form is empty (for removeDirectory: the root) or that has a '.'
\* or '..' segment; it writes no commit and no reference (stated for the
\* operations none of whose Object Store calls failed).
C19_PathValidation ==
  \A p \in Procs :
    (Done(p) /\ takesInvalidPath(p)
     /\ \A i \in DOMAIN calls[p] : calls[p][i].value # Threw) =>
      /\ returned[p] = Failure("INVALID_PATH")
      /\ \A i \in DOMAIN calls[p] : calls[p][i].call \notin {"writeCommit", "writeRef"}

(***************************************************************************)
(* The tree engine as a state machine: one input, one application          *)
(***************************************************************************)
InitTree ==
  /\ \E r \in Roots : tw = [TwIdle EXCEPT !.root = r]
  /\ mt = MtIdle
  /\ ls = LsIdle
  /\ OpsIdle

TwUpsert ==
  /\ tw.op = "none"
  /\ \E p \in Paths, b \in Blobs :
       tw' = [tw EXCEPT !.op = "upsert", !.path = p, !.blob = b,
                        !.out = upsertFileInTree(tw.root, p, b)]
  /\ UNCHANGED <<mt, ls, opVars>>

TwRemove ==
  /\ tw.op = "none"
  /\ \E p \in Paths :
       tw' = [tw EXCEPT !.op = "remove", !.path = p,
                        !.out = removeFileFromTree(tw.root, p)]
  /\ UNCHANGED <<mt, ls, opVars>>

\* resolvePath of a path of the root tree, the empty path included
TwResolve ==
  /\ tw.op = "none"
  /\ tw.root # Null
  /\ \E p \in Paths \cup {<<>>} :
       tw' = [tw EXCEPT !.op = "resolve", !.path = p, !.out = resolvePath(tw.root, p)]
  /\ UNCHANGED <<mt, ls, opVars>>

\* removeDirectory of a path on a commit of the root tree: what the operation
\* builds (the new tree, the commit, filesRemoved) or the error it throws
TwRemoveDirectory ==
  /\ tw.op = "none"
  /\ tw.root # Null
  /\ \E p \in Paths :
       tw' = [tw EXCEPT !.op = "removeDirectory", !.path = p,
                        !.out = buildRemoveDirectory(InitialCommit(tw.root), p, "p1")]
  /\ UNCHANGED <<mt, ls, opVars>>

NextTree == TwUpsert \/ TwRemove \/ TwResolve \/ TwRemoveDirectory

SpecTree == InitTree /\ [][NextTree]_vars

(***************************************************************************)
(* The batches as a state machine: the chain of upsertFileInTree calls of  *)
(* addManyFiles and of removeFileFromTree calls of removeManyFiles on one  *)
(* root tree, for a batch of two or three paths.                           *)
(***************************************************************************)
\* one sequence of the paths of a set
seqOfPaths(S) ==
  CHOOSE q \in [1..Cardinality(S) -> S] : \A i, j \in DOMAIN q : i # j => q[i] # q[j]

\* The batches: two paths of one top-level directory, or one single-segment
\* path and one or two more; no path is equal to or above another.
Batches ==
  {seqOfPaths(S) :
     S \in {T \in SUBSET Paths :
              /\ Cardinality(T) \in {2, 3}
              /\ \/ \E P \in T : Len(P) = 1
                 \/ Cardinality(T) = 2 /\ \A P, Q \in T : P[1] = Q[1]
              /\ \A P, Q \in T : P # Q => \E i \in 1..Len(P) : i <= Len(Q) /\ P[i] # Q[i]}}

\* the files of a batch: the contents alternate
filesOf(batch) ==
  [i \in DOMAIN batch |-> File(batch[i], IF i = 2 THEN "z" ELSE "y")]

TwUpsertAll ==
  /\ tw.op = "none"
  /\ \E b \in Batches :
       tw' = [op |-> "upsertAll", root |-> tw.root, files |-> filesOf(b),
              out |-> upsertAll(tw.root, filesOf(b))]
  /\ UNCHANGED <<mt, ls, opVars>>

TwRemoveAll ==
  /\ tw.op = "none"
  /\ tw.root # Null
  /\ \E b \in Batches :
       tw' = [op |-> "removeAll", root |-> tw.root, filePaths |-> b,
              out |-> removeAll(tw.root, b)]
  /\ UNCHANGED <<mt, ls, opVars>>

NextBatch == TwUpsertAll \/ TwRemoveAll

SpecBatch == InitTree /\ [][NextBatch]_vars

(***************************************************************************)
(* mergeTrees as a state machine: one input, one application.  The base is *)
(* a tree of the repository, ours and theirs are what add and remove        *)
(* operations make of it.                                                   *)
(***************************************************************************)
\* a/b and b/b, each the only file of its directory
TreeTwoDirs ==
  writeTree(<<dirEntry("a", writeTree(<<fileEntry("b", BlobX)>>)),
              dirEntry("b", writeTree(<<fileEntry("b", BlobX)>>))>>)

MergeBases == {TreeNested(BlobX), TreeTwoDirs}

MergePaths == {<<"a", "b">>, <<"b", "b">>, <<"a">>, <<"a", "a">>}

\* the tree of the commit an addFile writes (the tree is kept if it fails)
treeAfterAdd(treeSha, parts, content) ==
  LET newTreeSha == upsertFileInTree(treeSha, parts, Blob(content))
  IN IF IsErr(newTreeSha) THEN treeSha ELSE newTreeSha

\* the tree of the commit a removeFile writes (the tree is kept if it fails)
treeAfterRemove(treeSha, parts) ==
  LET newTreeSha == removeFileFromTree(treeSha, parts)
  IN IF IsErr(newTreeSha) THEN treeSha
     ELSE IF newTreeSha # Null THEN newTreeSha ELSE writeTree(<<>>)

RECURSIVE TreesAfter(_, _, _)
TreesAfter(treeSha, contents, n) ==
  IF n = 0 THEN {treeSha}
  ELSE LET before == TreesAfter(treeSha, contents, n - 1)
       IN before
          \cup {treeAfterAdd(t, P, c) : t \in before, P \in MergePaths, c \in contents}
          \cup {treeAfterRemove(t, P) : t \in before, P \in MergePaths}

\* the resolution maps of the callers: path -> content
ResolutionMaps ==
  { <<>>,
    <<"a", "b">> :> "r",
    <<"b">> :> "r",
    <<"a">> :> "r",
    <<"a", "b">> :> "",
    <<"a">> :> "" }

InitMerge ==
  /\ tw = TwIdle
  /\ ls = LsIdle
  /\ OpsIdle
  /\ \E base \in MergeBases :
       \E ours \in TreesAfter(base, {"y"}, MaxEdits),
          theirs \in TreesAfter(base, {"y", "z"}, MaxEdits) :
         mt = [MtIdle EXCEPT !.base = base, !.ours = ours, !.theirs = theirs]

MtMerge ==
  /\ mt.op = "none"
  /\ \E resolutions \in ResolutionMaps :
       mt' = [mt EXCEPT !.op = "merge", !.resolutions = resolutions,
                        !.out = mergeTrees(mt.base, mt.ours, mt.theirs, resolutions)]
  /\ UNCHANGED <<tw, ls, opVars>>

NextMerge == MtMerge

SpecMerge == InitMerge /\ [][NextMerge]_vars

(***************************************************************************)
(* mergeTrees on sides that also differ in a file's mode: the repository   *)
(* holds executable files (mode 100755) written by other clients of the    *)
(* store.                                                                  *)
(***************************************************************************)
\* a/b as an executable file
TreeNestedExec(blob) == writeTree(<<dirEntry("a", writeTree(<<execEntry("b", blob)>>))>>)

\* a/b and b/b with b/b as an executable file
TreeTwoDirsExec ==
  writeTree(<<dirEntry("a", writeTree(<<fileEntry("b", BlobX)>>)),
              dirEntry("b", writeTree(<<execEntry("b", BlobX)>>))>>)

SidesOf(base) ==
  TreesAfter(base, {"y", "z"}, MaxEdits)
    \cup {TreeNestedExec(BlobX), TreeNestedExec(BlobY), TreeTwoDirsExec,
          writeTree(<<execEntry("a", BlobY)>>)}

InitSymmetry ==
  /\ tw = TwIdle
  /\ ls = LsIdle
  /\ OpsIdle
  /\ \E base \in MergeBases :
       \E ours \in SidesOf(base), theirs \in SidesOf(base) :
         mt = [MtIdle EXCEPT !.base = base, !.ours = ours, !.theirs = theirs]

SpecSymmetry == InitSymmetry /\ [][NextMerge]_vars

(***************************************************************************)
(* Properties of the tree engine (checked under SpecTree)                  *)
(***************************************************************************)
\* A non-terminal segment of the path names a file in the tree.
RECURSIVE FileInTheWay(_, _)
FileInTheWay(treeSha, parts) ==
  /\ Len(parts) > 1
  /\ treeSha # Null
  /\ HasEntry(readTree(treeSha), Head(parts))
  /\ LET entry == EntryOf(readTree(treeSha), Head(parts))
     IN IF entry.type = "tree" THEN FileInTheWay(entry.oid, Tail(parts)) ELSE TRUE

\* C7: round trip: for every root tree (or absent root), every segment path P
\* and every blob OID b, upsertFileInTree(root, P, b) yields a tree in which
\* resolvePath at P returns kind blob with OID b.
C7_RoundTrip ==
  tw.op = "upsert" =>
    /\ ~IsErr(tw.out)
    /\ LET r == resolvePath(tw.out, tw.path)
       IN r.k = "entry" /\ r.type = "blob" /\ r.sha = tw.blob

\* C8: upsert is idempotent: applying upsert with the same path and blob to
\* its own returned yields the same tree OID.
C8_UpsertIdempotent ==
  (tw.op = "upsert" /\ ~IsErr(tw.out)) =>
    upsertFileInTree(tw.out, tw.path, tw.blob) = tw.out

C8_Witness ==
  /\ tw.op = "upsert" /\ ~IsErr(tw.out)
  /\ tw.root # Null /\ tw.out # tw.root
  /\ Len(tw.path) = 2
  /\ HasEntry(readTree(tw.root), tw.path[1])

\* Every entry of the old tree whose name is not the path segment of its level
\* is an entry of the rebuilt tree, at every level of the chain from the root
\* to the path.
RECURSIVE SiblingsKept(_, _, _)
SiblingsKept(old, new, parts) ==
  IF old = Null \/ ~IsTree(old) THEN TRUE
  ELSE
    LET es == readTree(old)
        part == Head(parts)
    IN /\ \A i \in DOMAIN es :
            es[i].path # part =>
              /\ new # Null
              /\ Cardinality({j \in DOMAIN readTree(new) : readTree(new)[j] = es[i]}) = 1
       /\ (Len(parts) > 1 /\ HasEntry(es, part) /\ EntryOf(es, part).type = "tree") =>
            SiblingsKept(EntryOf(es, part).oid,
                         IF new # Null /\ HasEntry(readTree(new), part)
                         THEN EntryOf(readTree(new), part).oid ELSE Null,
                         Tail(parts))

\* C9: structural sharing: after an upsert or a remove at path P, every entry
\* of every tree on the root-to-P chain whose name is not the path segment of
\* that level appears in the rebuilt tree with the same name, mode, kind and
\* OID.
C9_StructuralSharing ==
  (tw.op \in {"upsert", "remove"} /\ ~IsErr(tw.out)) =>
    SiblingsKept(tw.root, tw.out, tw.path)

C9_Witness ==
  /\ tw.op = "upsert" /\ ~IsErr(tw.out)
  /\ Len(tw.path) = 2
  /\ tw.root # Null
  /\ Len(readTree(tw.root)) = 2
  /\ HasEntry(readTree(tw.root), tw.path[1])
  /\ EntryOf(readTree(tw.root), tw.path[1]).type = "tree"
  /\ Len(readTree(EntryOf(readTree(tw.root), tw.path[1]).oid)) = 2

\* Neither the path nor any directory prefix of it exists in the root.
freshPath(root, parts) == root = Null \/ ~HasEntry(readTree(root), Head(parts))

\* Neither path is a prefix of the other.
independentPaths(P, Q) ==
  \E i \in 1..Len(P) : i <= Len(Q) /\ P[i] # Q[i]

\* upsert P and Q into the root, then remove P and Q
addTwoRemoveTwo(root, P, b, Q, c) ==
  LET added == upsertFileInTree(upsertFileInTree(root, P, b), Q, c)
      first == removeFileFromTree(added, P)
  IN IF first = Null THEN Null ELSE removeFileFromTree(first, Q)

\* remove(upsert(R, P, b), P), and the same for two paths, compared with
\* the expected root
removeUndoesAdd(expected) ==
  (tw.op = "upsert" /\ freshPath(tw.root, tw.path)) =>
    /\ removeFileFromTree(tw.out, tw.path) = expected
    /\ \A Q \in Paths, c \in Blobs :
         (freshPath(tw.root, Q) /\ independentPaths(tw.path, Q)) =>
           addTwoRemoveTwo(tw.root, tw.path, tw.blob, Q, c) = expected

\* C12 (as stated): for a root tree R and a path P such that neither P nor
\* any directory prefix of P exists in R, remove(upsert(R, P, b), P) has the
\* same OID as R (absent when R is absent); the same holds for two paths added
\* and then removed.
C12_RemoveUndoesAdd == removeUndoesAdd(tw.root)

\* C12 (amended): remove(upsert(R, P, b), P) has the same OID as R, and is
\* absent when R is absent or R is the tree without entries.
C12_RemoveUndoesAddOrPrunes ==
  removeUndoesAdd(IF tw.root = EmptyTree THEN Null ELSE tw.root)

C12_Witness ==
  /\ tw.op = "upsert" /\ freshPath(tw.root, tw.path)
  /\ tw.root # Null /\ tw.root # EmptyTree
  /\ Len(tw.path) = 2
  /\ \E Q \in Paths : Len(Q) = 2 /\ Q[1] = tw.path[1] /\ Q # tw.path
  /\ removeFileFromTree(tw.out, tw.path) = tw.root

(***************************************************************************)
(* Properties of mergeTrees (checked under SpecMerge)                      *)
(***************************************************************************)
\* C13: if the destination (ours) tree equals the merge base tree, mergeTrees
\* returns a tree with the same OID as the source (theirs) tree and an empty
\* conflict list, whatever theirs changed (stated for a theirs tree that
\* holds at least one entry).
C13_FastForwardContent ==
  (mt.op = "merge" /\ mt.ours = mt.base /\ mt.theirs # EmptyTree) =>
    /\ ~IsErr(mt.out)
    /\ mt.out.treeSha = mt.theirs
    /\ mt.out.conflicts = <<>>

\* C15: for a conflicting path at any depth that the resolution map has as a
\* key, the merged tree holds at exactly that path a blob with the
\* resolution's bytes (zero-length content included), the path is not
\* reported as a conflict, and the resolution is applied to no other path
\* (stated for the merges that return).
C15_ResolutionApplied ==
  (mt.op = "merge" /\ ~IsErr(mt.out)) =>
    \A P \in Paths :
      (conflictAt(mt.base, mt.ours, mt.theirs, P) /\ P \in DOMAIN mt.resolutions) =>
        /\ mt.out.treeSha # Null
        /\ sideAt(mt.out.treeSha, P) = [oid |-> Blob(mt.resolutions[P]), type |-> "blob"]
        /\ P \notin reportedPaths(mt.out.conflicts)
        /\ \A Q \in Paths \ DOMAIN mt.resolutions :
             sideAt(mt.out.treeSha, Q).oid # Blob(mt.resolutions[P])

\* C16: a conflict on a file inside nested directories is reported in the
\* conflict list under its path from the root, so that the list names the
\* conflicting paths, each once (stated for the merges without resolutions
\* that return).
C16_ConflictPathsAreFull ==
  (mt.op = "merge" /\ ~IsErr(mt.out) /\ DOMAIN mt.resolutions = {}) =>
    /\ \A P \in ConflictingPaths(mt.base, mt.ours, mt.theirs) :
         P \in reportedPaths(mt.out.conflicts)
    /\ \A i, j \in DOMAIN mt.out.conflicts :
         i # j => mt.out.conflicts[i] # mt.out.conflicts[j]

(***************************************************************************)
(* Properties of resolvePath (checked under SpecTree)                      *)
(***************************************************************************)
\* Every entry below a tree, under its path from that tree.
RECURSIVE EntriesBelow(_)
EntriesBelow(treeSha) ==
  LET entries == readTree(treeSha)
  IN UNION {
       {[at |-> <<entries[i].path>>, oid |-> entries[i].oid, mode |-> entries[i].mode,
         type |-> entries[i].type]}
       \cup (IF entries[i].type = "tree"
             THEN {[e EXCEPT !.at = <<entries[i].path>> \o e.at] :
                     e \in EntriesBelow(entries[i].oid)}
             ELSE {}) : i \in DOMAIN entries }

EntriesAt(treeSha, parts) == {e \in EntriesBelow(treeSha) : e.at = parts}

\* Some segment of the path is missing from its parent tree.
segmentMissing(treeSha, parts) ==
  \E k \in 1..Len(parts) :
    /\ EntriesAt(treeSha, SubSeq(parts, 1, k)) = {}
    /\ k > 1 => \E e \in EntriesAt(treeSha, SubSeq(parts, 1, k - 1)) : e.type = "tree"

\* A non-terminal segment of the path names a blob.
blobOnTheWay(treeSha, parts) ==
  \E k \in 1..(Len(parts) - 1) :
    \E e \in EntriesAt(treeSha, SubSeq(parts, 1, k)) : e.type = "blob"

\* resolvePath returns the entry the last segment names, the root for the
\* empty path.
resolvesToEntry ==
  IF tw.path = <<>>
  THEN tw.out = [k |-> "entry", sha |-> tw.root, mode |-> "040000", type |-> "tree"]
  ELSE \E e \in EntriesAt(tw.root, tw.path) :
         tw.out = [k |-> "entry", sha |-> e.oid, mode |-> e.mode, type |-> e.type]

unreachablePath(treeSha, parts) ==
  segmentMissing(treeSha, parts) \/ blobOnTheWay(treeSha, parts)

\* The operation removes, from the tip it read, a path that cannot be reached.
removesUnreachable(p) ==
  /\ Done(p)
  /\ loc[p].parentSha # Null
  /\ \A i \in DOMAIN calls[p] : calls[p][i].value # Threw
  /\ \/ /\ op[p].kind = "removeManyFiles"
        /\ ~hasDuplicates(op[p].filePaths)
        /\ \E i \in DOMAIN op[p].filePaths :
             unreachablePath(commitTree(loc[p].parentSha), pathParts(op[p].filePaths[i]))
     \/ /\ op[p].kind = "removeDirectory"
        /\ validDirectoryPath(op[p].directoryPath)
        /\ unreachablePath(commitTree(loc[p].parentSha), pathParts(op[p].directoryPath))

\* The paths of the operation, as the tree engine receives them.
removedParts(p) ==
  IF op[p].kind = "removeDirectory" THEN {pathParts(op[p].directoryPath)}
  ELSE {pathParts(op[p].filePaths[i]) : i \in DOMAIN op[p].filePaths}

\* C21: removeFileFromTree and removeDirectoryFromTree fail with NOT_FOUND
\* when a segment of the path does not exist in its parent tree or a
\* non-terminal segment is not a tree, and then no tree is written at any
\* level; the operation removing such a path fails without writing a commit
\* or a reference (a removeManyFiles whose first path is such a path fails
\* with NOT_FOUND).
C21_RemoveNotFound ==
  \A p \in Procs :
    removesUnreachable(p) =>
      LET t == commitTree(loc[p].parentSha)
      IN /\ \A P \in removedParts(p) :
              unreachablePath(t, P) =>
                /\ IsErr(removeFileFromTree(t, P))
                /\ removeFileFromTree(t, P).code = "NOT_FOUND"
                /\ IsErr(removeDirectoryFromTree(t, P))
                /\ removeDirectoryFromTree(t, P).code = "NOT_FOUND"
                /\ treesWrittenByRemove(t, P) = {}
         /\ ~returned[p].ok
         /\ \A i \in DOMAIN calls[p] : calls[p][i].call \notin {"writeCommit", "writeRef"}
         /\ (/\ op[p].kind = "removeManyFiles"
             /\ unreachablePath(t, pathParts(op[p].filePaths[1]))) =>
              returned[p] = Failure("NOT_FOUND")

C21_Witness ==
  \E p \in Procs :
    /\ removesUnreachable(p)
    /\ op[p].kind = "removeManyFiles"
    /\ blobOnTheWay(commitTree(loc[p].parentSha), pathParts(op[p].filePaths[1]))
    /\ returned[p] = Failure("NOT_FOUND")
    /\ refs[op[p].ref] = loc[p].parentSha

(***************************************************************************)
(* Properties of the failed reads (checked under Spec)                     *)
(***************************************************************************)
\* C22: a failed Object Store read is never replaced by a default value: when
\* a resolveRef of a committing operation or of its compareAndSwap fails (the
\* read fails; a reference that is absent is read without a failure), the
\* operation does not go on as if the reference were absent: the failed read
\* is its last call, it fails with OPERATION_FAILED and writes no reference.
C22_NoDefaultForFailedRead ==
  \A p \in Procs :
    \A i \in DOMAIN calls[p] :
      (calls[p][i].call = "resolveRef" /\ calls[p][i].value = Threw) =>
        /\ pc[p] = "done"
        /\ returned[p] = Failure("OPERATION_FAILED")
        /\ i = Len(calls[p])
        /\ ~wroteRef(p)

(***************************************************************************)
(* listFiles as a state machine: the entries of the target directory, in   *)
(* the order in which git.readTree returns them, and the listing made of   *)
(* them.  A name is written in ASCII: "U+00E9" is the one-character name    *)
(* e-acute, "eU+0301" the two-character name e followed by the combining   *)
(* acute accent.                                                           *)
(***************************************************************************)
ListNames == {"a", "b", "eU+0301", "U+00E9"}

\* the names by their UTF-16 code units
CodeUnitOrder == <<"a", "b", "eU+0301", "U+00E9">>

\* String.prototype.localeCompare treats canonically equivalent strings as
\* equal: it compares the names' canonical decompositions.
canonicalForm(name) == IF name = "U+00E9" THEN "eU+0301" ELSE name

\* the names in collation order: punctuation sorts before the letters
CollationOrder == <<"..", "a", "b", "eU+0301">>

collationRank(name) ==
  CHOOSE i \in DOMAIN CollationOrder : CollationOrder[i] = canonicalForm(name)

localeCompare(x, y) ==
  IF collationRank(x) < collationRank(y) THEN -1
  ELSE IF collationRank(x) > collationRank(y) THEN 1
  ELSE 0

\* the comparator of listFiles: trees first, then blobs; by name within a group
compareEntries(a, b) ==
  IF a.type # b.type THEN (IF a.type = "tree" THEN -1 ELSE 1)
  ELSE localeCompare(a.path, b.path)

\* Array.prototype.sort is stable: an element goes behind the elements that do
\* not compare greater than it.
insertStable(sorted, x) ==
  LET k == Cardinality({i \in DOMAIN sorted : compareEntries(sorted[i], x) <= 0})
  IN SubSeq(sorted, 1, k) \o <<x>> \o SubSeq(sorted, k + 1, Len(sorted))

RECURSIVE sortEntries(_)
sortEntries(entries) ==
  IF entries = <<>> THEN <<>>
  ELSE insertStable(sortEntries(SubSeq(entries, 1, Len(entries) - 1)),
                    entries[Len(entries)])

\* result.tree.filter(...).map(...).sort(...)
listEntries(tree) ==
  LET kept == SelectSeq(tree, LAMBDA entry : entry.type # "commit")
  IN sortEntries([i \in DOMAIN kept |->
                    [mode |-> kept[i].mode, type |-> kept[i].type,
                     oid |-> kept[i].oid, path |-> kept[i].path]])

\* What a name holds in the listed directory: nothing, a file, a directory or
\* a submodule (an entry of type commit).
ListKinds == {"none", "blob", "tree", "commit"}

listedEntry(name, kind) ==
  IF kind = "blob" THEN fileEntry(name, BlobX)
  ELSE IF kind = "tree" THEN dirEntry(name, writeTree(<<fileEntry("a", BlobX)>>))
  ELSE [mode |-> "160000", path |-> name, oid |-> InitialCommit(EmptyTree),
        type |-> "commit"]

\* every order in which the entries can be returned
StoreOrders(entries) ==
  {s \in [1..Cardinality(entries) -> entries] :
     \A i, j \in DOMAIN s : i # j => s[i] # s[j]}

InitList ==
  /\ tw = TwIdle
  /\ mt = MtIdle
  /\ OpsIdle
  /\ \E f \in [ListNames -> ListKinds] :
       \E s \in StoreOrders({listedEntry(n, f[n]) : n \in {m \in ListNames : f[m] # "none"}}) :
         ls = [LsIdle EXCEPT !.tree = s]

LsList ==
  /\ ls.op = "none"
  /\ ls' = [ls EXCEPT !.op = "list", !.out = listEntries(ls.tree)]
  /\ UNCHANGED <<tw, mt, opVars>>

NextList == LsList

SpecList == InitList /\ [][NextList]_vars

(***************************************************************************)
(* The read operations: each resolves its reference (listBranches: every   *)
(* branch) and then reads immutable objects only, so it is one step.       *)
(***************************************************************************)
ReadPaths == { <<"a", "/", "b">>, <<"a">> }

Read(value) == [k |-> "returned", ok |-> TRUE, code |-> "", value |-> value]

\* git.resolveRef, git.readCommit and resolvePath of a read operation
targetOf(ref, filePath) ==
  IF refs[ref] = Null THEN Err("NotFoundError")
  ELSE resolvePath(commitTree(refs[ref]), pathParts(filePath))

\* read-file.ts, lines 25-76
readFileOf(ref, filePath) ==
  LET target == targetOf(ref, filePath)
  IN IF IsErr(target) THEN target
     ELSE IF target.type # "blob" THEN Err("INVALID_PATH")
     ELSE [k |-> "file", content |-> target.sha.c, mode |-> target.mode, oid |-> target.sha]

\* get-file-details.ts
getFileDetailsOf(ref, filePath) ==
  LET target == targetOf(ref, filePath)
  IN IF IsErr(target) THEN target
     ELSE [k |-> "details", mode |-> target.mode, oid |-> target.sha,
           type |-> target.type]

\* listFiles
listFilesOf(ref, folderPath) ==
  LET target == targetOf(ref, folderPath)
  IN IF IsErr(target) THEN target
     ELSE IF target.type # "tree" THEN Err("INVALID_PATH")
     ELSE [k |-> "listing", entries |-> listEntries(readTree(target.sha))]

\* listBranches
listBranchesOf ==
  [k |-> "branches",
   branches |-> {[name |-> b, commit |-> refs[b]] : b \in {x \in Branches : refs[x] # Null}}]

\* The read operation starts, reads and returns or throws in one step.
Reads(p, kind, ref, filePath, result) ==
  /\ CanBegin(p)
  /\ nOps' = nOps + 1
  /\ op' = [op EXCEPT ![p] = [kind |-> kind, ref |-> ref, filePath |-> filePath]]
  /\ loc' = [loc EXCEPT ![p] = NoLocals]
  /\ pc' = [pc EXCEPT ![p] = "done"]
  /\ returned' = [returned EXCEPT ![p] =
                    IF IsErr(result) THEN Failure(wrapError(result)) ELSE Read(result)]
  /\ calls' = [calls EXCEPT ![p] = <<Call("read", ref, Null, Null)>>]
  /\ UNCHANGED <<tw, mt, ls, refs, faults, succeeded>>

ReadFile(p) ==
  \E ref \in Branches, filePath \in ReadPaths :
    Reads(p, "readFile", ref, filePath, readFileOf(ref, filePath))

GetFileDetails(p) ==
  \E ref \in Branches, filePath \in ReadPaths :
    Reads(p, "getFileDetails", ref, filePath, getFileDetailsOf(ref, filePath))

ListFiles(p) ==
  \E ref \in Branches, folderPath \in ReadPaths :
    Reads(p, "listFiles", ref, folderPath, listFilesOf(ref, folderPath))

ListBranches(p) == Reads(p, "listBranches", Null, <<>>, listBranchesOf)

NextFrame ==
  \/ Next
  \/ \E p \in Procs : ReadFile(p) \/ GetFileDetails(p) \/ ListFiles(p) \/ ListBranches(p)

\* The repositories of Init; at most one Object Store call fails.
InitFrame ==
  /\ tw = TwIdle
  /\ mt = MtIdle
  /\ ls = LsIdle
  /\ refs \in InitRepos
  /\ pc = [p \in Procs |-> "idle"]
  /\ op = [p \in Procs |-> [kind |-> "none"]]
  /\ loc = [p \in Procs |-> NoLocals]
  /\ returned = [p \in Procs |-> NoResult]
  /\ calls = [p \in Procs |-> <<>>]
  /\ nOps = 0
  /\ faults = MaxFaults - 1
  /\ succeeded = {}

SpecFrame == InitFrame /\ [][NextFrame]_vars

(***************************************************************************)
(* Properties of listFiles (checked under SpecList)                        *)
(***************************************************************************)
elementsOf(seq) == {seq[i] : i \in DOMAIN seq}

\* x comes before y in the order of the names
nameBefore(x, y) ==
  \E i, j \in DOMAIN CodeUnitOrder :
    i < j /\ CodeUnitOrder[i] = x /\ CodeUnitOrder[j] = y

\* C23: listFiles returns the entries of the directory in a total order:
\* every tree entry precedes every blob entry, within each group the entries
\* are in the order of their names; the listing is a permutation of the
\* directory's blob and tree entries and is the same for every order in which
\* the store returns them.
C23_ListingOrder ==
  ls.op = "list" =>
    /\ \A i, j \in DOMAIN ls.out :
         i < j =>
           /\ ~(ls.out[i].type = "blob" /\ ls.out[j].type = "tree")
           /\ ls.out[i].type = ls.out[j].type => nameBefore(ls.out[i].path, ls.out[j].path)
    /\ elementsOf(ls.out) = {e \in elementsOf(ls.tree) : e.type \in {"blob", "tree"}}
    /\ Len(ls.out) = Cardinality(elementsOf(ls.out))
    /\ \A s \in StoreOrders(elementsOf(ls.tree)) : listEntries(s) = ls.out

(***************************************************************************)
(* createBranch as a state machine: two clients create branches, one       *)
(* action per Object Store call on a reference.                            *)
(***************************************************************************)
\* the branch a createBranch starts from: sourceBranch, HEAD when it is not given
SourceBranches == Branches \cup {"HEAD"}

\* git.resolveRef of the source: HEAD is the symbolic reference to main
sourceOf(sourceBranch) == IF sourceBranch = "HEAD" THEN refs["main"] ELSE refs[sourceBranch]

\* a writeRef that overwrites whatever the force flag says
writeRefNeverRejects(currentSha, force) == FALSE

\* git.writeRef throws AlreadyExistsError for an existing reference unless forced
writeRefRejects(currentSha, force) == ~force /\ currentSha # Null

Created(branchName, commitSha) ==
  [k |-> "returned", ok |-> TRUE, code |-> "", branchName |-> branchName,
   commitSha |-> commitSha]

\* createBranch: the operation starts and resolves the source; a resolveRef
\* that throws is reported as a source that does not exist.
BeginCreateBranch(p) ==
  \E branchName \in Branches, sourceBranch \in SourceBranches, force \in BOOLEAN,
     fault \in FaultChoices :
    LET sourceSha == sourceOf(sourceBranch)
        read == Call("resolveRef", sourceBranch, IF fault THEN Threw ELSE sourceSha, sourceSha)
    IN /\ CanBegin(p)
       /\ nOps' = nOps + 1
       /\ op' = [op EXCEPT ![p] =
                   [kind |-> "createBranch", ref |-> branchName,
                    sourceBranch |-> sourceBranch, force |-> force]]
       /\ IF fault \/ sourceSha = Null
          THEN /\ loc' = [loc EXCEPT ![p] = NoLocals]
               /\ Fail(p, "NOT_FOUND", <<read>>, fault)
          ELSE /\ loc' = [loc EXCEPT ![p] = [NoLocals EXCEPT !.sourceSha = sourceSha]]
               /\ returned' = [returned EXCEPT ![p] = NoResult]
               /\ Goto(p, "createWrite", <<read>>, FALSE)
       /\ UNCHANGED <<tw, mt, ls, refs, succeeded>>

\* createBranch: write the new reference and return.
CreateBranchWriteRef(p) ==
  \E fault \in FaultChoices :
    LET ref == op[p].ref
        write(value) == Append(calls[p], Call("writeRef", ref, value, refs[ref]))
    IN /\ pc[p] = "createWrite"
       /\ IF fault
          THEN /\ Fail(p, "OPERATION_FAILED", write(Threw), TRUE)
               /\ UNCHANGED refs
          ELSE IF writeRefRejects(refs[ref], op[p].force)
          THEN /\ Fail(p, "ALREADY_EXISTS", write(Threw), FALSE)
               /\ UNCHANGED refs
          ELSE /\ refs' = [refs EXCEPT ![ref] = loc[p].sourceSha]
               /\ pc' = [pc EXCEPT ![p] = "done"]
               /\ returned' = [returned EXCEPT ![p] = Created(ref, loc[p].sourceSha)]
               /\ calls' = [calls EXCEPT ![p] = write(loc[p].sourceSha)]
               /\ UNCHANGED faults
       /\ UNCHANGED <<tw, mt, ls, op, loc, nOps, succeeded>>

NextBranch == \E p \in Procs : BeginCreateBranch(p) \/ CreateBranchWriteRef(p)

SpecBranch == Init /\ [][NextBranch]_vars

(***************************************************************************)
(* Properties of createBranch (checked under SpecBranch)                   *)
(***************************************************************************)
\* The step in which client p's createBranch ends, no Object Store call of
\* the step failing.
createBranchEnds(p) ==
  /\ pc[p] # "done" /\ pc'[p] = "done"
  /\ op'[p].kind = "createBranch"
  /\ faults' = faults

\* C24: a createBranch whose source does not exist fails with NOT_FOUND and
\* writes nothing; one whose branch name exists fails with ALREADY_EXISTS and
\* leaves the reference unchanged when force is false, and makes the
\* reference point to the source commit when force is true; one whose branch
\* name does not exist creates the reference pointing to the source commit.
C24_CreateBranch ==
  [][\A p \in Procs :
       createBranchEnds(p) =>
         LET b == op'[p].ref
         IN IF sourceOf(op'[p].sourceBranch) = Null /\ pc[p] # "createWrite"
            THEN returned'[p] = Failure("NOT_FOUND") /\ refs' = refs
            ELSE IF refs[b] # Null /\ ~op'[p].force
            THEN returned'[p] = Failure("ALREADY_EXISTS") /\ refs' = refs
            ELSE /\ returned'[p] = Created(b, loc[p].sourceSha)
                 /\ loc[p].sourceSha = calls[p][1].value
                 /\ refs' = [refs EXCEPT ![b] = loc[p].sourceSha]]_vars

C24_Witness ==
  \E p \in Procs :
    /\ op[p].kind = "createBranch" /\ Done(p) /\ op[p].force
    /\ returned[p].ok
    /\ calls[p][2].old # Null /\ calls[p][2].old # returned[p].commitSha
    /\ refs[op[p].ref] = returned[p].commitSha

(***************************************************************************)
(* Properties of removeDirectory (checked under SpecTree)                  *)
(***************************************************************************)
\* the paths of the files (blob entries) of a tree
FilePaths(treeSha) == {e.at : e \in {x \in EntriesBelow(treeSha) : x.type = "blob"}}

fileLevel(P) ==
  /\ \A k \in 1..(Len(P) - 1) :
       \/ sideAt(mt.ours, SubSeq(P, 1, k)).type = "tree"
       \/ sideAt(mt.theirs, SubSeq(P, 1, k)).type = "tree"
  /\ sideAt(mt.ours, P).type # "tree" /\ sideAt(mt.theirs, P).type # "tree"
  /\ \E t \in {mt.base, mt.ours, mt.theirs} : sideAt(t, P).type # "none"

\* the three-way classification of a path by the OIDs of the three sides
threeWay(P) ==
  LET b == sideAt(mt.base, P).oid
      o == sideAt(mt.ours, P).oid
      t == sideAt(mt.theirs, P).oid
  IN IF o = t THEN "ours"
     ELSE IF o = b THEN "theirs"
     ELSE IF t = b THEN "ours"
     ELSE "conflict"

\* C26: for every name that is no directory on ours and on theirs, the
\* merged tree holds the common entry when ours = theirs (nothing when both
\* are absent), theirs' entry when ours = base # theirs (nothing when theirs
\* deleted it), ours' entry when theirs = base # ours (nothing when ours
\* deleted it); in every other case the name is a conflict: it is in the
\* conflict list, once, and the tree holds no entry for it unless a resolution
\* was written there (stated for the merges that return; a merge without
\* resolutions that has a conflict writes no tree).
C26_FileLevelThreeWay ==
  (mt.op = "merge" /\ ~IsErr(mt.out)) =>
    LET level == {P \in Paths : fileLevel(P)}
        conflicting == {P \in level : threeWay(P) = "conflict"}
        treeWritten == mt.out.conflicts = <<>> \/ DOMAIN mt.resolutions # {}
    IN /\ \A P \in level \ conflicting :
            treeWritten =>
              sideAt(mt.out.treeSha, P) =
                sideAt(IF threeWay(P) = "ours" THEN mt.ours ELSE mt.theirs, P)
       /\ \A P \in conflicting :
            \/ /\ P[Len(P)] \in elementsOf(mt.out.conflicts)
               /\ sideAt(mt.out.treeSha, P).type = "none"
            \/ /\ DOMAIN mt.resolutions # {}
               /\ sideAt(mt.out.treeSha, P).oid \in
                    {Blob(mt.resolutions[k]) : k \in DOMAIN mt.resolutions}
       /\ DOMAIN mt.resolutions = {} =>
            Len(mt.out.conflicts) = Cardinality(conflicting)
       /\ conflicting = {} => mt.out.conflicts = <<>>

C26_Witness ==
  /\ mt.op = "merge" /\ ~IsErr(mt.out)
  /\ mt.out.treeSha # Null /\ mt.out.conflicts # <<>>
  /\ \E P, Q, R \in Paths :
       /\ Len(P) = 2
       /\ fileLevel(P) /\ threeWay(P) = "conflict"
       /\ fileLevel(Q) /\ threeWay(Q) = "theirs"
       /\ sideAt(mt.ours, Q).type = "blob" /\ sideAt(mt.theirs, Q).type = "none"
       /\ fileLevel(R) /\ threeWay(R) = "ours"
       /\ sideAt(mt.ours, R).oid # sideAt(mt.theirs, R).oid

(***************************************************************************)
(* Properties of upsertFileInTree at the leaf and at the intermediate      *)
(* levels (checked under SpecTree)                                         *)
(***************************************************************************)
\* the path without its last segment
parentPath(parts) == SubSeq(parts, 1, Len(parts) - 1)

\* what the root holds at the path before the upsert
heldAt(parts) ==
  IF tw.root = Null THEN [oid |-> Null, type |-> "none"] ELSE sideAt(tw.root, parts)

\* C27: at the leaf, upsert leaves exactly one entry with the final segment's
\* name, a blob entry with regular-file mode and the new blob OID, whatever
\* entry was there before: a file of any mode is replaced, a directory of that
\* name is replaced by the file and no path below it resolves afterwards
\* (stated for the upserts whose non-terminal segments name no file).
C27_LeafReplaced ==
  (tw.op = "upsert" /\ ~FileInTheWay(tw.root, tw.path)) =>
    /\ ~IsErr(tw.out)
    /\ LET leafTree == resolvePath(tw.out, parentPath(tw.path))
           name == tw.path[Len(tw.path)]
       IN /\ ~IsErr(leafTree) /\ leafTree.type = "tree"
          /\ Cardinality({i \in DOMAIN readTree(leafTree.sha) :
                            readTree(leafTree.sha)[i].path = name}) = 1
          /\ EntryOf(readTree(leafTree.sha), name) = fileEntry(name, tw.blob)
    /\ \A Q \in Paths :
         (Len(Q) > Len(tw.path) /\ SubSeq(Q, 1, Len(tw.path)) = tw.path) =>
           IsErr(resolvePath(tw.out, Q))

C27_Witness ==
  /\ tw.op = "upsert" /\ ~IsErr(tw.out)
  /\ Len(tw.path) = 1
  /\ heldAt(tw.path).type = "tree"
  /\ \E Q \in Paths : Len(Q) = 2 /\ Q[1] = tw.path[1] /\ heldAt(Q).type = "blob"
  /\ resolvePath(tw.out, tw.path).type = "blob"

\* C28: at each intermediate level upsert replaces or inserts the child's
\* entry with a directory entry for the new subtree, whatever the entry was:
\* when a non-terminal segment of the path names a file, upsert still
\* succeeds, the file is replaced by a directory and the path resolves to the
\* new blob.
C28_IntermediateReplaced ==
  tw.op = "upsert" =>
    /\ ~IsErr(tw.out)
    /\ \A k \in 1..(Len(tw.path) - 1) :
         LET r == resolvePath(tw.out, SubSeq(tw.path, 1, k))
         IN r.k = "entry" /\ r.type = "tree" /\ r.mode = "040000"
    /\ LET r == resolvePath(tw.out, tw.path)
       IN r.k = "entry" /\ r.type = "blob" /\ r.sha = tw.blob

(***************************************************************************)
(* Properties of the batches (checked under SpecBatch)                     *)
(***************************************************************************)
\* the paths of the batch are pairwise distinct and none is a prefix of another
pairwiseIndependent(batch) ==
  \A i, j \in DOMAIN batch : i # j => independentPaths(batch[i], batch[j])

\* the batch in another order
OrdersOf(batch) ==
  {[i \in DOMAIN batch |-> batch[f[i]]] :
     f \in {g \in [DOMAIN batch -> DOMAIN batch] :
              \A i, j \in DOMAIN batch : i # j => g[i] # g[j]}}

\* the final root tree of a batch, or that the batch fails
outcome(treeSha) == IF IsErr(treeSha) THEN "fails" ELSE treeSha

\* C29: for a batch of upserts, or of removes, whose paths are pairwise
\* distinct and none a prefix of another, every permutation of the batch,
\* chained from the same root, yields the same final root tree OID (or fails
\* as every other permutation does).
C29_BatchOrderIndependent ==
  /\ tw.op = "upsertAll" =>
       /\ pairwiseIndependent([i \in DOMAIN tw.files |-> tw.files[i].filePath])
       /\ \A q \in OrdersOf(tw.files) :
            outcome(upsertAll(tw.root, q)) = outcome(tw.out)
  /\ tw.op = "removeAll" =>
       /\ pairwiseIndependent(tw.filePaths)
       /\ \A q \in OrdersOf(tw.filePaths) :
            outcome(removeAll(tw.root, q)) = outcome(tw.out)

C29_Witness ==
  /\ tw.op = "upsertAll"
  /\ tw.root # Null
  /\ Len(tw.files) = 3
  /\ \E i, j \in DOMAIN tw.files :
       /\ i # j
       /\ tw.files[i].filePath[1] = tw.files[j].filePath[1]
       /\ segmentMissing(tw.root, tw.files[i].filePath)
       /\ ~segmentMissing(tw.root, tw.files[j].filePath)
  /\ ~IsErr(tw.out)
  /\ \E q \in OrdersOf(tw.files) : q # tw.files /\ upsertAll(tw.root, q) = tw.out

(***************************************************************************)
(* Properties of a batch that empties the tree (checked under Spec)        *)
(***************************************************************************)
\* P is Q or a path above Q
isPrefix(P, Q) == Len(P) <= Len(Q) /\ SubSeq(Q, 1, Len(P)) = P

\* The first k paths of the batch are in the root tree and every file of the
\* tree is one of them or lies below one of them: removing them empties it.
emptiesAfter(treeSha, paths, k) ==
  /\ FilePaths(treeSha) # {}
  /\ \A i \in 1..k : ~IsErr(resolvePath(treeSha, paths[i]))
  /\ \A F \in FilePaths(treeSha) : \E i \in 1..k : isPrefix(paths[i], F)

\* A removeManyFiles of independent paths that has built its tree, none of its
\* Object Store calls failing.
removesBatch(p) ==
  /\ op[p].kind = "removeManyFiles"
  /\ pc[p] # "build"
  /\ loc[p].parentSha # Null
  /\ \A i \in DOMAIN calls[p] : calls[p][i].value # Threw
  /\ pairwiseIndependent([i \in DOMAIN op[p].filePaths |-> pathParts(op[p].filePaths[i])])

\* C30: in removeManyFiles, if removing a proper prefix of the batch's paths
\* empties the root tree while paths remain, the batch fails with
\* OPERATION_FAILED, writes no commit and does not write the reference; if the
\* tree becomes empty only after the last path, the batch builds its commit on
\* the empty tree and, unless compareAndSwap fails, succeeds with treeSha null.
C30_MidBatchEmptyTree ==
  \A p \in Procs :
    removesBatch(p) =>
      LET root == commitTree(loc[p].parentSha)
          paths == [i \in DOMAIN op[p].filePaths |-> pathParts(op[p].filePaths[i])]
          n == Len(paths)
      IN /\ (\E k \in 1..(n - 1) : emptiesAfter(root, paths, k)) =>
              /\ returned[p] = Failure("OPERATION_FAILED")
              /\ \A i \in DOMAIN calls[p] :
                   calls[p][i].call \notin {"writeCommit", "writeRef"}
         /\ (/\ emptiesAfter(root, paths, n)
             /\ \A k \in 1..(n - 1) : ~emptiesAfter(root, paths, k)) =>
              /\ Len(calls[p]) >= 2
              /\ calls[p][2].call = "writeCommit"
              /\ commitTree(calls[p][2].value) = EmptyTree
              /\ loc[p].treeSha = Null
              /\ Done(p) =>
                   \/ returned[p].ok /\ returned[p].treeSha = Null
                   \/ returned[p] = Failure("CONCURRENCY_ERROR")

C30_Witness ==
  \E p \in Procs :
    /\ removesBatch(p) /\ Done(p)
    /\ Len(op[p].filePaths) = 2
    /\ emptiesAfter(commitTree(loc[p].parentSha), <<pathParts(op[p].filePaths[1])>>, 1)
    /\ returned[p] = Failure("OPERATION_FAILED")
    /\ refs[op[p].ref] = loc[p].parentSha

(***************************************************************************)
(* Properties of the batches that name a file twice (checked under         *)
(* SpecDuplicates)                                                         *)
(***************************************************************************)
\* two entries of the batch denote the same file path
sameFileTwice(filePaths) ==
  \E i, j \in DOMAIN filePaths :
    i # j /\ pathParts(filePaths[i]) = pathParts(filePaths[j])

\* C31: removeManyFiles rejects with INVALID_INPUT a batch in which two
\* entries denote the same file path, two spellings that normalize to the
\* same segments included, before it resolves the reference: it makes no
\* Object Store call, writes no commit and leaves the reference unchanged.
C31_DuplicatesRejected ==
  \A p \in Procs :
    (Done(p) /\ op[p].kind = "removeManyFiles" /\ sameFileTwice(op[p].filePaths)) =>
      /\ returned[p] = Failure("INVALID_INPUT")
      /\ calls[p] = <<>>

(***************************************************************************)
(* Properties of the order of validation and I/O (checked under Spec)      *)
(***************************************************************************)
\* The operation is given a path that it rejects: a file path without
\* segments, or a directory path that is not valid.
givenRejectedPath(p) ==
  \/ /\ op[p].kind = "addManyFiles"
     /\ \E i \in DOMAIN op[p].files : pathParts(op[p].files[i].filePath) = <<>>
  \/ /\ op[p].kind = "removeManyFiles"
     /\ \E i \in DOMAIN op[p].filePaths : pathParts(op[p].filePaths[i]) = <<>>
  \/ /\ op[p].kind = "removeDirectory"
     /\ ~validDirectoryPath(op[p].directoryPath)

\* C32: validation precedes I/O: an add or remove operation that is given an
\* invalid path fails with INVALID_PATH (not wrapped as OPERATION_FAILED)
\* before it makes any Object Store call: no reference is read and nothing is
\* written.
C32_ValidationPrecedesIO ==
  \A p \in Procs :
    (op[p].kind \in CasKinds /\ givenRejectedPath(p)) =>
      /\ pc[p] = "done"
      /\ returned[p] = Failure("INVALID_PATH")
      /\ calls[p] = <<>>

(***************************************************************************)
(* Properties of the commits to a branch that does not exist (checked      *)
(* under Spec)                                                             *)
(***************************************************************************)
\* The add operation found no reference when it started.
addsToMissingBranch(p) ==
  /\ op[p].kind = "addManyFiles"
  /\ calls[p] # <<>>
  /\ calls[p][1].value = Null

\* C33: addManyFiles on a reference that does not exist builds the tree from
\* an absent root, writes a commit without parents and creates the reference
\* through compareAndSwap with expected = absent; when another operation has
\* created the reference first, the operation fails with CONCURRENCY_ERROR
\* and never writes the reference (stated for the behaviours without a
\* failed Object Store call).
C33_CreateMissingBranch ==
  \A p \in Procs :
    (faults = 0 /\ addsToMissingBranch(p)) =>
      /\ loc[p].parentSha = Null
      /\ loc[p].commitSha # Null =>
           /\ loc[p].commitSha.parent = <<>>
           /\ loc[p].commitSha.tree = upsertAll(Null, op[p].files)
      /\ casCalled(p) =>
           /\ casRead(p).call = "resolveRef"
           /\ casRead(p).old # Null =>
                /\ returned[p] = Failure("CONCURRENCY_ERROR")
                /\ Len(calls[p]) = 3
      /\ \A i \in DOMAIN calls[p] : calls[p][i].call = "writeRef" => calls[p][i].old = Null

(***************************************************************************)
(* The Object Store calls of the tree functions: what a call reads and     *)
(* writes, the calls of its recursion included                             *)
(***************************************************************************)
\* a walk that starts again from the root for every segment
RECURSIVE resolveReadsFromRoot(_, _, _)
resolveReadsFromRoot(currentSha, type, parts) ==
  IF parts = <<>> \/ type # "tree" THEN 0
  ELSE IF ~IsTree(currentSha) THEN 1
  ELSE LET entries == readTree(currentSha)
           part == Head(parts)
       IN Len(parts)
          + (IF ~HasEntry(entries, part) THEN 0
             ELSE resolveReadsFromRoot(EntryOf(entries, part).oid,
                                       EntryOf(entries, part).type, Tail(parts)))

\* resolvePath: the git.readTree calls of the loop, one for every segment it
\* reaches
RECURSIVE resolveReads(_, _, _)
resolveReads(currentSha, type, parts) ==
  IF parts = <<>> \/ type # "tree" THEN 0
  ELSE IF ~IsTree(currentSha) THEN 1
  ELSE LET entries == readTree(currentSha)
           part == Head(parts)
       IN 1 + (IF ~HasEntry(entries, part) THEN 0
               ELSE resolveReads(EntryOf(entries, part).oid,
                                 EntryOf(entries, part).type, Tail(parts)))

StoreCalls(levels, reads, writes, threw) ==
  [levels |-> levels, reads |-> reads, writes |-> writes, threw |-> threw]

\* upsertFileInTree: a level reads its tree (twice when it is not the leaf
\* level) if there is one, and writes its tree once the level below returned
RECURSIVE upsertCalls(_, _)
upsertCalls(parentTreeSha, parts) ==
  IF parentTreeSha # Null /\ ~IsTree(parentTreeSha) THEN StoreCalls(1, 1, 0, TRUE)
  ELSE IF Tail(parts) = <<>>
  THEN StoreCalls(1, IF parentTreeSha # Null THEN 1 ELSE 0, 1, FALSE)
  ELSE LET below == upsertCalls(existingSubTreeSha(parentTreeSha, Head(parts)),
                                Tail(parts))
       IN StoreCalls(1 + below.levels,
                     (IF parentTreeSha # Null THEN 2 ELSE 0) + below.reads,
                     below.writes + (IF below.threw THEN 0 ELSE 1),
                     below.threw)

\* removeFileFromTree: a level reads its tree, and writes it once the level
\* below returned unless the tree has become empty
RECURSIVE removeCalls(_, _)
removeCalls(parentTreeSha, parts) ==
  IF parentTreeSha = Null THEN StoreCalls(1, 0, 0, TRUE)
  ELSE IF ~IsTree(parentTreeSha) THEN StoreCalls(1, 1, 0, TRUE)
  ELSE
    LET currentPart == Head(parts)
        existing == readTree(parentTreeSha)
        result == removeFileFromTree(parentTreeSha, parts)
        written == IF IsErr(result) \/ result = Null THEN 0 ELSE 1
    IN IF Tail(parts) = <<>>
       THEN StoreCalls(1, 1, written, IsErr(result))
       ELSE IF ~HasEntry(existing, currentPart)
               \/ EntryOf(existing, currentPart).type # "tree"
       THEN StoreCalls(1, 1, 0, TRUE)
       ELSE LET below == removeCalls(EntryOf(existing, currentPart).oid, Tail(parts))
            IN StoreCalls(1 + below.levels, 1 + below.reads, below.writes + written,
                          below.threw)

\* countFilesInTree: the calls of the function, one for the tree and one for
\* every tree entry below it
RECURSIVE countVisits(_)
countVisits(treeSha) ==
  LET entries == readTree(treeSha)
      RECURSIVE sum(_)
      sum(i) == IF i > Len(entries) THEN 0
                ELSE (IF entries[i].type = "blob" THEN 0 ELSE countVisits(entries[i].oid))
                     + sum(i + 1)
  IN 1 + sum(1)

\* mergeTrees: the calls of the function, one for the three trees and one for
\* every name that is a directory on a changed side, until a call throws
RECURSIVE mergeVisits(_, _, _)
mergeVisits(baseTreeSha, ourTreeSha, theirTreeSha) ==
  IF \E t \in {baseTreeSha, ourTreeSha, theirTreeSha} : t # Null /\ ~IsTree(t)
  THEN [visits |-> 1, threw |-> TRUE]
  ELSE
    LET baseEntries == readTreeEntries(baseTreeSha)
        ourEntries == readTreeEntries(ourTreeSha)
        theirEntries == readTreeEntries(theirTreeSha)
        allPaths == dedupe(keysOf(baseEntries) \o keysOf(ourEntries) \o keysOf(theirEntries))
        RECURSIVE loop(_, _)
        loop(i, visits) ==
          IF i > Len(allPaths) THEN [visits |-> visits, threw |-> FALSE]
          ELSE LET p == allPaths[i]
                   ours == getEntry(ourEntries, p)
                   theirs == getEntry(theirEntries, p)
               IN IF ours.type = "tree" \/ theirs.type = "tree"
                  THEN LET below == mergeVisits(getEntry(baseEntries, p).oid, ours.oid,
                                                theirs.oid)
                       IN IF below.threw
                          THEN [visits |-> visits + below.visits, threw |-> TRUE]
                          ELSE loop(i + 1, visits + below.visits)
                  ELSE loop(i + 1, visits)
    IN loop(1, 1)

(***************************************************************************)
(* Properties of the termination (checked under SpecTree)                  *)
(***************************************************************************)
\* the paths of the directories of a tree
directoriesOf(treeSha) ==
  IF treeSha = Null THEN {}
  ELSE {e.at : e \in {x \in EntriesBelow(treeSha) : x.type = "tree"}}

\* the tree after the upsert or the removal, the root when it failed
rootAfter == IF IsErr(tw.out) THEN tw.root ELSE tw.out

tipReadAtStart(p) ==
  IF op[p].kind = "mergeBranches" THEN calls[p][2].value ELSE calls[p][1].value

\* the parents that the commit of the operation is to have
parentsFor(p) ==
  IF op[p].kind = "mergeBranches" THEN <<calls[p][2].value, calls[p][1].value>>
  ELSE IF tipReadAtStart(p) = Null THEN <<>>
  ELSE <<tipReadAtStart(p)>>

\* C35: every commit written by an add or remove operation has exactly one
\* parent, the branch tip the operation read at its start (none when the
\* branch did not exist), and every merge commit has the two parents
\* [destination tip, source tip]; hence when an operation has written the
\* reference, the tip that it replaced is a parent of the new tip (stated
\* for the behaviours without a failed Object Store call).
C35_ParentStructure ==
  \A p \in Procs :
    (faults = 0 /\ op[p].kind # "none" /\ loc[p].commitSha # Null) =>
      /\ loc[p].commitSha.parent = parentsFor(p)
      /\ \A i \in DOMAIN calls[p] :
           calls[p][i].call = "writeRef" =>
             IF calls[p][i].old = Null THEN calls[p][i].value.parent = <<>>
             ELSE \E k \in DOMAIN calls[p][i].value.parent :
                    calls[p][i].value.parent[k] = calls[p][i].old

(***************************************************************************)
(* Properties of the reference frame (checked under SpecFrame)             *)
(***************************************************************************)
ReadKinds == {"readFile", "getFileDetails", "listFiles", "listBranches"}

\* the operation of client p takes the step
stepOf(p) == pc'[p] # pc[p] \/ op'[p] # op[p] \/ calls'[p] # calls[p]

\* C36: each operation modifies at most the reference it targets: a step
\* that changes a reference is a step of an add, remove or merge operation
\* on that reference, which for a merge is its destination branch and not
\* its source branch; a step of a read operation changes no reference,
\* whether the operation succeeds or fails.
C36_ReferenceFrame ==
  [][/\ \A b \in Branches :
          refs'[b] # refs[b] =>
            \E p \in Procs :
              /\ stepOf(p)
              /\ op'[p].kind \in CasKinds \cup {"mergeBranches"}
              /\ op'[p].ref = b
              /\ (op'[p].kind = "mergeBranches" /\ op'[p].sourceBranch # b)
                   => refs'[op'[p].sourceBranch] = refs[op'[p].sourceBranch]
              /\ \A c \in Branches \ {b} : refs'[c] = refs[c]
     /\ \A p \in Procs :
          (stepOf(p) /\ op'[p].kind \in ReadKinds) => refs' = refs]_vars

C36_Witness ==
  /\ \E p \in Procs :
       /\ op[p].kind = "mergeBranches" /\ returned[p].k = "returned" /\ returned[p].ok
       /\ refs[op[p].ref] = loc[p].commitSha
       /\ refs[op[p].sourceBranch] = loc[p].sourceSha
  /\ \E p \in Procs :
       /\ op[p].kind \in ReadKinds /\ returned[p].k = "returned" /\ ~returned[p].ok


(***************************************************************************)
(* Merge symmetry (checked under SpecSymmetry)                             *)
(***************************************************************************)
\* the same merge with ours and theirs exchanged
swapped == mergeTrees(mt.base, mt.theirs, mt.ours, mt.resolutions)

\* name, kind and OID of every entry below a result tree
shapeOf(treeSha) ==
  IF treeSha = Null THEN {}
  ELSE {[at |-> e.at, type |-> e.type, oid |-> e.oid] : e \in EntriesBelow(treeSha)}

\* name and kind of every entry, and the OID of every file
fileShapeOf(treeSha) ==
  IF treeSha = Null THEN {}
  ELSE {[at |-> e.at, type |-> e.type,
         oid |-> IF e.type = "blob" THEN e.oid ELSE Null] : e \in EntriesBelow(treeSha)}

\* path and mode of every entry
modesOf(treeSha) ==
  IF treeSha = Null THEN {}
  ELSE {[at |-> e.at, mode |-> e.mode] : e \in EntriesBelow(treeSha)}

sameOutcome ==
  /\ IsErr(mt.out) <=> IsErr(swapped)
  /\ ~IsErr(mt.out) =>
       /\ reportedPaths(mt.out.conflicts) = reportedPaths(swapped.conflicts)
       /\ (mt.out.treeSha = Null) <=> (swapped.treeSha = Null)

\* C37 as stated: mergeTrees(base, ours, theirs, r) and mergeTrees(base,
\* theirs, ours, r) report the same set of conflict paths and produce trees
\* with the same entry names, kinds and OIDs at every path.
C37_MergeSymmetry ==
  mt.op = "merge" =>
    /\ sameOutcome
    /\ ~IsErr(mt.out) => shapeOf(mt.out.treeSha) = shapeOf(swapped.treeSha)

\* C37 amended: the two orders fail alike, report the same set of conflict
\* paths and produce trees with the same entry names and kinds at every path
\* and the same OID at every file path; the OIDs of the directories and of
\* the result tree agree as well whenever the two results give every path
\* the same mode.
C37_MergeSymmetryUpToModes ==
  mt.op = "merge" =>
    /\ sameOutcome
    /\ ~IsErr(mt.out) =>
         /\ fileShapeOf(mt.out.treeSha) = fileShapeOf(swapped.treeSha)
         /\ modesOf(mt.out.treeSha) = modesOf(swapped.treeSha)
              => mt.out.treeSha = swapped.treeSha

\* The sides differ, the merge gives a tree, and the two orders give trees
\* that differ in the mode of a file only.
C37_Witness ==
  /\ mt.op = "merge"
  /\ mt.ours # mt.theirs
  /\ ~IsErr(mt.out)
  /\ mt.out.treeSha # Null
  /\ swapped.treeSha # Null
  /\ mt.out.treeSha # swapped.treeSha
  /\ mt.out.conflicts = <<>>


(***************************************************************************)
(* Merge of a name that is a directory on one side and a file elsewhere    *)
(* (checked under SpecMerge)                                               *)
(***************************************************************************)
\* Some name reached by the recursion is a directory in ours or theirs and a
\* file in another of the three trees.
RECURSIVE kindsDiffer(_, _, _)
kindsDiffer(baseTreeSha, ourTreeSha, theirTreeSha) ==
  LET baseEntries == readTreeEntries(baseTreeSha)
      ourEntries == readTreeEntries(ourTreeSha)
      theirEntries == readTreeEntries(theirTreeSha)
      allPaths == dedupe(keysOf(baseEntries) \o keysOf(ourEntries) \o keysOf(theirEntries))
  IN \E i \in DOMAIN allPaths :
       LET base == getEntry(baseEntries, allPaths[i])
           ours == getEntry(ourEntries, allPaths[i])
           theirs == getEntry(theirEntries, allPaths[i])
       IN /\ ours.type = "tree" \/ theirs.type = "tree"
          /\ IF "blob" \in {base.type, ours.type, theirs.type} THEN TRUE
             ELSE kindsDiffer(base.oid, ours.oid, theirs.oid)

\* C38: when a name is a directory on one changed side and a file on the
\* other side or in the base, mergeTrees ends with a merged tree or a
\* reported conflict, never with the failure of reading a blob as a tree.
C38_TypeMismatchMerges ==
  (mt.op = "merge" /\ kindsDiffer(mt.base, mt.ours, mt.theirs)) => ~IsErr(mt.out)


(***************************************************************************)
(* Progress of the committing operations (checked under Spec)              *)
(***************************************************************************)
\* The client's operation went through compareAndSwap and has returned.
contender(p) ==
  /\ pc[p] = "done"
  /\ op[p].kind \in CasKinds
  /\ returned[p].k = "returned"
  /\ returned[p].ok \/ returned[p].code = "CONCURRENCY_ERROR"

sameUpToLabel(byFile, byDirectory) ==
  IF IsErr(byFile)
  THEN /\ IsErr(byDirectory)
       /\ byDirectory.code = byFile.code
       /\ \/ byDirectory.resource = byFile.resource
          \/ byFile.resource = "File" /\ byDirectory.resource = "Directory"
  ELSE byDirectory = byFile

namesDirectory(treeSha, parts) ==
  /\ treeSha # Null
  /\ ~IsErr(resolvePath(treeSha, parts))
  /\ resolvePath(treeSha, parts).type = "tree"

\* C40: removeFileFromTree and removeDirectoryFromTree return the same tree,
\* the same absent result, or the same failure up to the resource label; the
\* file variant applied to the name of a directory removes the directory.
C40_RemoveHelpersEquivalent ==
  tw.op = "remove" =>
    /\ sameUpToLabel(tw.out, removeDirectoryFromTree(tw.root, tw.path))
    /\ namesDirectory(tw.root, tw.path) =>
         /\ ~IsErr(tw.out)
         /\ tw.out # Null => IsErr(resolvePath(tw.out, tw.path))

\* removeFileFromTree was given the name of a directory and returned a tree.
C40_Witness ==
  /\ tw.op = "remove"
  /\ namesDirectory(tw.root, tw.path)
  /\ ~IsErr(tw.out)
  /\ tw.out # Null
  /\ removeDirectoryFromTree(tw.root, tw.path) = tw.out

====
